---- MODULE Spec2Model ----
(***************************************************************************)
(* Verification model of dynalist-mcp: the indented-text parser            *)
(* (markdown-parser), the level-batched tree inserter                      *)
(* (insertTreeUnderParent / insert_nodes_from_markdown), the node-graph    *)
(* navigation helpers of the client, the markdown renderer                 *)
(* (node-to-markdown) and the handlers of move_node_relative, delete_node  *)
(* and read_node_as_markdown.                                              *)
(*                                                                         *)
(* Text is a sequence of one-character strings.  Node ids are integers.    *)
(* Indices that the code keeps 0-based (localIndex, parentLevelIndex, the  *)
(* index of an insert entry) are 0-based here too; TLA+ sequences are      *)
(* 1-based, so a lookup arr[i] of the code reads arr[i + 1].               *)
(***************************************************************************)
EXTENDS Integers, Sequences, FiniteSets, TLC

VARIABLES
    \* ---- insert_nodes_from_markdown / insertTreeUnderParent -------------
    pc,                \* position of the tool handler
    urlNode,           \* parsed.nodeId of the url (0: the url has no #z=)
    text,              \* the content argument
    position,          \* "as_first_child" | "as_last_child"
    tree,              \* parseMarkdownBullets(content)
    parentId,          \* parentNodeId handed to insertTreeUnderParent
    levels,            \* groupByLevel(tree)
    levelIdx,          \* loop variable of insertTreeUnderParent
    totalCreated,
    rootNodeIds,
    previousLevelIds,
    ret,               \* what the handler returned / threw
    requests,          \* remote calls sent and not yet answered
    responses,         \* answers on their way back to the handler
    callLog,           \* history: every editDocument call with its answer
    docNodes,          \* the remote document: the node list /doc/read returns
    nextId,            \* the remote's next fresh node id
    \* ---- node-to-markdown ------------------------------------------------
    rnodes,            \* the node list handed to the renderer
    ropts,             \* ConvertOptions as the caller gave them
    rstart,            \* rootNodeId of nodeToMarkdown (0: documentToMarkdown)
    rpc,               \* "input" | "rendered" | "parsed"
    rout,              \* the rendered lines (with the node each line comes from)
    rparsed,           \* parseMarkdownBullets of the rendered text
    \* ---- move_node_relative / delete_node / read_node_as_markdown --------
    tpc,               \* position of the tool handler
    targs,             \* the arguments of the call, urls already parsed
    tdoc,              \* the remote document: the node list /doc/read returns
    tnet,              \* the remote call in flight, or its answer
    tlog,              \* history: every remote call the handler made
    tread,             \* doc.nodes as the handler fetched them
    tret,              \* what the handler returned / threw
    \* ---- parseMarkdownBullets / groupByLevel on their own ----------------
    ppc,               \* "idle" | "input" | "parsed" | "grouped"
    ptext,             \* the text handed to parseMarkdownBullets
    punit,             \* indentUnit after the first loop
    pflat,             \* flatNodes after the second loop
    ptree,             \* what parseMarkdownBullets returned
    plevels,           \* groupByLevel of that
    \* ---- findRootNodeId / findNodeParent / getAncestors on their own -----
    navPc,             \* "idle" | "input" | "done"
    navNodes,          \* the node list argument
    navId,             \* the nodeId argument
    navLevels,         \* the levels argument of getAncestors
    navRes,            \* the function applied and what it returned
    \* ---- send_to_inbox --------------------------------------------------
    iphase,            \* which insertTreeUnderParent call of the handler runs
    icheckbox,         \* the checkbox argument
    firstNodeId,       \* firstResponse.node_id
    topIdx,            \* loop variable i of step 3
    topRootIds,        \* topResult.rootNodeIds
    inboxTotal,        \* totalCreated of the handler
    inboxNode,         \* remote: the node the account's inbox is
    inboxTop           \* remote: inbox items are added first (else last)

insertVars == <<pc, urlNode, text, position, tree, parentId, levels, levelIdx,
                totalCreated, rootNodeIds, previousLevelIds, ret, requests,
                responses, callLog, docNodes, nextId>>
renderVars == <<rnodes, ropts, rstart, rpc, rout, rparsed>>
toolVars == <<tpc, targs, tdoc, tnet, tlog, tread, tret>>
parseVars == <<ppc, ptext, punit, pflat, ptree, plevels>>
navVars == <<navPc, navNodes, navId, navLevels, navRes>>
inboxVars == <<iphase, icheckbox, firstNodeId, topIdx, topRootIds, inboxTotal,
               inboxNode, inboxTop>>
vars == <<insertVars, renderVars, toolVars, parseVars, navVars, inboxVars>>

----------------------------------------------------------------------------
(* Bounds of the model.                                                    *)

\* Lines of the content argument of insert_nodes_from_markdown.
MaxLines == 4
\* Deepest indentation level (in units of 4 spaces) of such a line.
MaxLevel == 2
\* Children the target document's root already has.
MaxExisting == 2
\* Nodes of a node list handed to the renderer.
MaxRNodes == 3
\* Largest maxDepth option handed to the renderer.
MaxMaxDepth == 1

----------------------------------------------------------------------------
(* Characters and the JavaScript string primitives the code uses.          *)

\* What \s and String.prototype.trim treat as white space (the part of it
\* that the alphabet of the model holds).
IsSpace(c) == c \in {" ", "\t", "\n", "\r"}

IsDigit(c) == c \in {"0", "1", "2", "3", "4", "5", "6", "7", "8", "9"}

\* The character class [-*•] of the first replace of parseMarkdownBullets
\* ("o" stands for the bullet dot U+2022).
IsBulletChar(c) == c \in {"-", "*", "o"}

Tail2(s, n) == SubSeq(s, n, Len(s))

RECURSIVE TrimStart(_)
TrimStart(s) ==
    IF s # <<>> /\ IsSpace(s[1]) THEN TrimStart(Tail(s)) ELSE s

RECURSIVE TrimEnd(_)
TrimEnd(s) ==
    IF s # <<>> /\ IsSpace(s[Len(s)]) THEN TrimEnd(SubSeq(s, 1, Len(s) - 1)) ELSE s

\* String.prototype.trim
Trim(s) == TrimEnd(TrimStart(s))

\* String.prototype.split(sep) for a one-character separator.
RECURSIVE SplitAcc(_, _, _, _)
SplitAcc(s, sep, cur, acc) ==
    IF s = <<>> THEN Append(acc, cur)
    ELSE IF s[1] = sep THEN SplitAcc(Tail(s), sep, <<>>, Append(acc, cur))
    ELSE SplitAcc(Tail(s), sep, Append(cur, s[1]), acc)

Split(s, sep) == SplitAcc(s, sep, <<>>, <<>>)

RECURSIVE Concat(_)
Concat(ss) == IF ss = <<>> THEN <<>> ELSE Head(ss) \o Concat(Tail(ss))

\* String.prototype.repeat
RECURSIVE Repeat(_, _)
Repeat(s, n) == IF n <= 0 THEN <<>> ELSE s \o Repeat(s, n - 1)

----------------------------------------------------------------------------
(* markdown-parser: parseMarkdownBullets, getLeadingSpaces, buildTree.     *)

RECURSIVE getLeadingSpaces(_)
getLeadingSpaces(line) ==
    IF line = <<>> THEN 0
    ELSE IF line[1] = " " THEN 1 + getLeadingSpaces(Tail(line))
    ELSE IF line[1] = "\t" THEN 4 + getLeadingSpaces(Tail(line))
    ELSE 0

\* content.replace(/^[-*•]\s+/, "")
StripBullet(s) ==
    IF Len(s) >= 2 /\ IsBulletChar(s[1]) /\ IsSpace(s[2])
    THEN TrimStart(Tail(s)) ELSE s

RECURSIVE DigitRun(_)
DigitRun(s) == IF s # <<>> /\ IsDigit(s[1]) THEN 1 + DigitRun(Tail(s)) ELSE 0

\* content.replace(/^\d+[.)]\s+/, "")
StripNumber(s) ==
    LET d == DigitRun(s) IN
    IF d >= 1 /\ Len(s) >= d + 2 /\ s[d + 1] \in {".", ")"} /\ IsSpace(s[d + 2])
    THEN TrimStart(Tail2(s, d + 2)) ELSE s

\* content.replace(/^>\s*/, "")
StripQuote(s) ==
    IF s # <<>> /\ s[1] = ">" THEN TrimStart(Tail(s)) ELSE s

\* A plausible slip: only the first marker found is removed.
StripMarkers_OneOnly(s) ==
    IF StripBullet(s) # s THEN StripBullet(s)
    ELSE IF StripNumber(s) # s THEN StripNumber(s)
    ELSE StripQuote(s)

\* The three replaces of parseMarkdownBullets, chained as in the code.
StripMarkers(s) == StripQuote(StripNumber(StripBullet(s)))

\* The first loop of parseMarkdownBullets: the indent unit.
RECURSIVE DetectIndentUnit(_, _)
DetectIndentUnit(lines, indentUnit) ==
    IF lines = <<>> THEN indentUnit
    ELSE LET line == Head(lines)
             leadingSpaces == getLeadingSpaces(line)
         IN  IF Trim(line) = <<>> THEN DetectIndentUnit(Tail(lines), indentUnit)
             ELSE IF leadingSpaces > 0 /\ leadingSpaces < indentUnit
                  THEN DetectIndentUnit(Tail(lines), leadingSpaces)
                  ELSE DetectIndentUnit(Tail(lines), indentUnit)

\* The second loop of parseMarkdownBullets: the flat nodes.
RECURSIVE FlatNodes(_, _)
FlatNodes(lines, indentUnit) ==
    IF lines = <<>> THEN <<>>
    ELSE LET line == Head(lines)
             level == getLeadingSpaces(line) \div indentUnit
             content == StripMarkers(Trim(line))
         IN  IF Trim(line) = <<>> THEN FlatNodes(Tail(lines), indentUnit)
             ELSE IF content # <<>>
                  THEN <<[content |-> content, level |-> level]>>
                           \o FlatNodes(Tail(lines), indentUnit)
                  ELSE FlatNodes(Tail(lines), indentUnit)

\* The stack loop of buildTree, as the parent of every flat node (0: a root).
\* The stack holds positions of flat nodes; the level of an entry is the level
\* of that flat node.
\* A plausible slip: a line of the same level as the stack top stays under it.
RECURSIVE PopStack_Strict(_, _, _)
PopStack_Strict(flat, stack, level) ==
    IF stack # <<>> /\ flat[stack[Len(stack)]].level > level
    THEN PopStack_Strict(flat, SubSeq(stack, 1, Len(stack) - 1), level)
    ELSE stack

RECURSIVE PopStack(_, _, _)
PopStack(flat, stack, level) ==
    IF stack # <<>> /\ flat[stack[Len(stack)]].level >= level
    THEN PopStack(flat, SubSeq(stack, 1, Len(stack) - 1), level)
    ELSE stack

RECURSIVE BuildParents(_, _, _, _)
BuildParents(flat, i, stack, par) ==
    IF i > Len(flat) THEN par
    ELSE LET popped == PopStack(flat, stack, flat[i].level)
             p == IF popped = <<>> THEN 0 ELSE popped[Len(popped)]
         IN  BuildParents(flat, i + 1, Append(popped, i), Append(par, p))

\* The positions, in order, of the flat nodes whose parent is p.
RECURSIVE KidsOf(_, _, _)
KidsOf(par, p, i) ==
    IF i > Len(par) THEN <<>>
    ELSE IF par[i] = p THEN <<i>> \o KidsOf(par, p, i + 1)
    ELSE KidsOf(par, p, i + 1)

\* A ParsedNode; key is the position of its line among the kept lines (the
\* identity of the object, which the code has and a record has not).
RECURSIVE MkNode(_, _, _)
MkNode(flat, par, i) ==
    LET kids == KidsOf(par, i, 1) IN
    [key |-> i, content |-> flat[i].content,
     children |-> [k \in 1..Len(kids) |-> MkNode(flat, par, kids[k])]]

buildTree(flatNodes) ==
    LET par == BuildParents(flatNodes, 1, <<>>, <<>>)
        roots == KidsOf(par, 0, 1)
    IN  [k \in 1..Len(roots) |-> MkNode(flatNodes, par, roots[k])]

parseMarkdownBullets(txt) ==
    LET lines == Split(txt, "\n")
        indentUnit == DetectIndentUnit(lines, 4)
    IN  buildTree(FlatNodes(lines, indentUnit))

----------------------------------------------------------------------------
(* markdown-parser: groupByLevel, getNodesAtDepth, collectAtDepth.         *)

RECURSIVE collectAtDepth(_, _, _)
collectAtDepth(node, currentDepth, targetDepth) ==
    IF currentDepth = targetDepth THEN <<node>>
    ELSE Concat([k \in 1..Len(node.children) |->
                    collectAtDepth(node.children[k], currentDepth + 1, targetDepth)])

getNodesAtDepth(roots, depth) ==
    IF depth = 0 THEN roots
    ELSE Concat([k \in 1..Len(roots) |-> collectAtDepth(roots[k], 0, depth)])

\* A plausible slip: parentLevelIndex is the place of the child among its
\* siblings.
NextLevel_SiblingIndex(currentParents) ==
    LET perParent == [p \in 1..Len(currentParents) |->
                        [c \in 1..Len(currentParents[p].children) |->
                            [node |-> currentParents[p].children[c], parentIdx |-> c - 1]]]
        flat == Concat(perParent)
    IN  [j \in 1..Len(flat) |->
            [key |-> flat[j].node.key, content |-> flat[j].node.content,
             localIndex |-> j - 1, parentLevelIndex |-> flat[j].parentIdx]]

\* The nested for loops of groupByLevel: the children of currentParents in
\* order, each with the position of its parent in currentParents.
NextLevel(currentParents) ==
    LET perParent == [p \in 1..Len(currentParents) |->
                        [c \in 1..Len(currentParents[p].children) |->
                            [node |-> currentParents[p].children[c], parentIdx |-> p - 1]]]
        flat == Concat(perParent)
    IN  [j \in 1..Len(flat) |->
            [key |-> flat[j].node.key, content |-> flat[j].node.content,
             localIndex |-> j - 1, parentLevelIndex |-> flat[j].parentIdx]]

\* The while (true) loop of groupByLevel.
RECURSIVE GroupLoop(_, _, _)
GroupLoop(roots, lvls, currentParents) ==
    LET nextLevel == NextLevel(currentParents) IN
    IF nextLevel = <<>> THEN lvls
    ELSE GroupLoop(roots, Append(lvls, nextLevel),
                   getNodesAtDepth(roots, Len(lvls) + 1 - 1))

groupByLevel(roots) ==
    LET level0 == [i \in 1..Len(roots) |->
                      [key |-> roots[i].key, content |-> roots[i].content,
                       localIndex |-> i - 1, parentLevelIndex |-> -1]]
    IN  GroupLoop(roots, <<level0>>, roots)

----------------------------------------------------------------------------
(* dynalist-client: findRootNodeId, findNodeParent, buildNodeMap.          *)

\* The value of an absent id (undefined, or "" where the code turns it into one).
NoId == 0

ChildIds(nodes) == UNION {{n.children[k] : k \in DOMAIN n.children} : n \in {nodes[i] : i \in DOMAIN nodes}}

\* A plausible slip: the first node of the list is returned unseen.
findRootNodeId_FirstNode(nodes) == IF nodes # <<>> THEN nodes[1].id ELSE NoId

findRootNodeId(nodes) ==
    LET childIds == ChildIds(nodes)
        free == {i \in DOMAIN nodes : nodes[i].id \notin childIds}
    IN  IF free # {} THEN nodes[CHOOSE i \in free : \A j \in free : i <= j].id
        ELSE IF nodes # <<>> THEN nodes[1].id
        ELSE NoId

----------------------------------------------------------------------------
(* tools: insertTreeUnderParent.                                           *)

\* previousLevelIds[i] of the code: undefined past the end of the array.
IdAt(arr, i) == IF i + 1 \in DOMAIN arr THEN arr[i + 1] ELSE NoId

\* options of insertTreeUnderParent: startIndex is optional.
Options(pos) ==
    [hasStartIndex |-> (pos = "as_first_child"), startIndex |-> 0, checkbox |-> FALSE]

\* The index base of an insert entry: options.startIndex at level 0 when
\* the caller gave one, else 0.
BaseIndex(lvIdx, options) ==
    IF lvIdx = 0 /\ options.hasStartIndex THEN options.startIndex ELSE 0

\* A plausible slip: the parent is looked up by the node's own position.
NodeParentId_ByLocalIndex(node, pid, prevIds) ==
    IF node.parentLevelIndex = -1 THEN pid ELSE IdAt(prevIds, node.localIndex)

\* The parent id of the insert entry of a level node.
NodeParentId(node, pid, prevIds) ==
    IF node.parentLevelIndex = -1 THEN pid ELSE IdAt(prevIds, node.parentLevelIndex)

\* A plausible slip: the per-parent count is left out of the index.
EntryIndex_NoCount(baseIndex, count) == baseIndex

\* index: baseIndex + count
EntryIndex(baseIndex, count) == baseIndex + count

\* The inner for loop of insertTreeUnderParent: the insert entries of one
\* level.  counts is childCountPerParent.
RECURSIVE BuildChanges(_, _, _, _, _, _, _)
BuildChanges(level, i, lvIdx, pid, prevIds, options, counts) ==
    IF i > Len(level) THEN <<>>
    ELSE LET node == level[i]
             nodeParentId == NodeParentId(node, pid, prevIds)
             baseIndex == BaseIndex(lvIdx, options)
             count == IF nodeParentId \in DOMAIN counts THEN counts[nodeParentId] ELSE 0
             entry == [action |-> "insert", parent_id |-> nodeParentId,
                       index |-> EntryIndex(baseIndex, count), content |-> node.content,
                       checkbox |-> options.checkbox, key |-> node.key]
             counts2 == [q \in DOMAIN counts \cup {nodeParentId} |->
                            IF q = nodeParentId THEN count + 1 ELSE counts[q]]
         IN  <<entry>> \o BuildChanges(level, i + 1, lvIdx, pid, prevIds, options, counts2)

----------------------------------------------------------------------------
(* The remote document service: /doc/read and /doc/edit (insert entries),  *)
(* as the external interface describes them.                               *)

NewNode(id, content, checkbox) ==
    [id |-> id, content |-> content, note |-> <<>>, children |-> <<>>,
     checkbox |-> checkbox, checked |-> FALSE, heading |-> 0]

\* s with x placed at 0-based position idx; -1, or a position past the end,
\* appends.
InsertAt(s, idx, x) ==
    IF idx < 0 \/ idx >= Len(s) THEN Append(s, x)
    ELSE SubSeq(s, 1, idx) \o <<x>> \o SubSeq(s, idx + 1, Len(s))

HasId(nodes, id) == \E i \in DOMAIN nodes : nodes[i].id = id

\* One insert entry applied: the new node joins the list and its id joins
\* the children of its parent at the entry's index.
ApplyInsert(nodes, e, newId) ==
    Append([i \in DOMAIN nodes |->
               IF nodes[i].id = e.parent_id
               THEN [nodes[i] EXCEPT !.children = InsertAt(@, e.index, newId)]
               ELSE nodes[i]],
           NewNode(newId, e.content, e.checkbox))

\* The entries of a batch applied in order; the new ids are nid, nid + 1, ...
RECURSIVE ApplyChanges(_, _, _)
ApplyChanges(nodes, changes, nid) ==
    IF changes = <<>> THEN nodes
    ELSE ApplyChanges(ApplyInsert(nodes, Head(changes), nid), Tail(changes), nid + 1)

----------------------------------------------------------------------------
(* tools: the handler of insert_nodes_from_markdown, with the body of      *)
(* insertTreeUnderParent inlined at its call.  An action is the code       *)
(* between two awaits.                                                     *)

EditRequest(changes) == [op |-> "edit", changes |-> changes]

\* A plausible slip: the ids of every level overwrite rootNodeIds.
RootIdsAfter_EveryLevel(lvIdx, newIds, roots) == newIds

\* if (levelIdx === 0) rootNodeIds = newIds
RootIdsAfter(lvIdx, newIds, roots) == IF lvIdx = 0 THEN newIds ELSE roots

\* A plausible slip: the call of the next level is sent without awaiting the
\* answer of this one.
IssueLevel_Pipelined(lvls, lvIdx, pid, prevIds, options) ==
    LET changes == BuildChanges(lvls[lvIdx + 1], 1, lvIdx, pid, prevIds, options,
                                [q \in {} |-> 0])
        more == IF lvIdx + 1 < Len(lvls)
                THEN <<BuildChanges(lvls[lvIdx + 2], 1, lvIdx + 1, pid, <<>>, options,
                                    [q \in {} |-> 0])>>
                ELSE <<>>
        both == <<changes>> \o more
    IN  /\ requests' = requests \o [k \in 1..Len(both) |-> EditRequest(both[k])]
        /\ callLog' = callLog \o [k \in 1..Len(both) |->
                                    [level |-> lvIdx + k - 1, changes |-> both[k],
                                     status |-> "sent", new_node_ids |-> <<>>]]
        /\ pc' = "edit_wait"

\* One iteration of the for loop of insertTreeUnderParent up to its await:
\* the entries of level lvIdx are built and editDocument is called.
IssueLevel(lvls, lvIdx, pid, prevIds, options) ==
    LET changes == BuildChanges(lvls[lvIdx + 1], 1, lvIdx, pid, prevIds, options,
                                [q \in {} |-> 0])
    IN  /\ requests' = Append(requests, EditRequest(changes))
        /\ callLog' = Append(callLog, [level |-> lvIdx, changes |-> changes,
                                       status |-> "sent", new_node_ids |-> <<>>])
        /\ pc' = "edit_wait"

\* The handler from the point where parentNodeId is known up to the first
\* await of insertTreeUnderParent (or the handler's return).
BeginInsert(pid) ==
    LET t == parseMarkdownBullets(text)
        lvls == groupByLevel(t)
    IN  /\ tree' = t
        /\ parentId' = pid
        /\ IF t = <<>>
           THEN /\ pc' = "returned"
                /\ ret' = [kind |-> "error", totalCreated |-> 0, rootNodeIds |-> <<>>]
                /\ UNCHANGED <<levels, levelIdx, totalCreated, rootNodeIds,
                               previousLevelIds, requests, callLog>>
           ELSE /\ levels' = lvls
                /\ levelIdx' = 0
                /\ totalCreated' = 0
                /\ rootNodeIds' = <<>>
                /\ previousLevelIds' = <<>>
                /\ IssueLevel(lvls, 0, pid, <<>>, Options(position))
                /\ UNCHANGED ret

\* The handler is invoked: the url is parsed and, when it names no node, the
\* document is read to find its root.
ToolStart ==
    /\ UNCHANGED <<renderVars, toolVars, parseVars, navVars, inboxVars>>
    /\ pc = "start"
    /\ IF urlNode = NoId
       THEN /\ requests' = Append(requests, [op |-> "read", changes |-> <<>>])
            /\ pc' = "read_wait"
            /\ UNCHANGED <<tree, parentId, levels, levelIdx, totalCreated,
                           rootNodeIds, previousLevelIds, ret, callLog>>
       ELSE BeginInsert(urlNode)
    /\ UNCHANGED <<urlNode, text, position, responses, docNodes, nextId>>

\* readDocument resolves.
ReadReturn ==
    /\ UNCHANGED <<renderVars, toolVars, parseVars, navVars, inboxVars>>
    /\ pc = "read_wait"
    /\ responses # <<>>
    /\ Head(responses).ok
    /\ responses' = Tail(responses)
    /\ BeginInsert(findRootNodeId(Head(responses).nodes))
    /\ UNCHANGED <<urlNode, text, position, docNodes, nextId>>

\* editDocument resolves: the rest of the loop body, then either the next
\* iteration up to its await or the return.
EditReturn ==
    /\ UNCHANGED <<renderVars, toolVars, parseVars, navVars, inboxVars>>
    /\ pc = "edit_wait"
    /\ responses # <<>>
    /\ Head(responses).ok
    /\ responses' = Tail(responses)
    /\ LET newIds == Head(responses).new_node_ids
           roots == RootIdsAfter(levelIdx, newIds, rootNodeIds)
           total == totalCreated + Len(newIds)
       IN  /\ rootNodeIds' = roots
           /\ totalCreated' = total
           /\ previousLevelIds' = newIds
           /\ levelIdx' = levelIdx + 1
           /\ IF levelIdx + 1 < Len(levels)
              THEN /\ IssueLevel(levels, levelIdx + 1, parentId, newIds, Options(position))
                   /\ UNCHANGED ret
              ELSE /\ pc' = "returned"
                   /\ ret' = [kind |-> "ok", totalCreated |-> total, rootNodeIds |-> roots]
                   /\ UNCHANGED <<requests, callLog>>
    /\ UNCHANGED <<urlNode, text, position, tree, parentId, levels, docNodes, nextId>>

\* A plausible slip: a try/catch inside the loop swallows the failure of a
\* level and the loop goes on with the next level.
HandlerThrow_Continue ==
    /\ UNCHANGED <<renderVars, toolVars, parseVars, navVars, inboxVars>>
    /\ pc \in {"read_wait", "edit_wait"}
    /\ responses # <<>>
    /\ ~Head(responses).ok
    /\ responses' = Tail(responses)
    /\ IF pc = "edit_wait" /\ levelIdx + 1 < Len(levels)
       THEN /\ levelIdx' = levelIdx + 1
            /\ previousLevelIds' = <<>>
            /\ IssueLevel(levels, levelIdx + 1, parentId, <<>>, Options(position))
            /\ UNCHANGED ret
       ELSE /\ pc' = "threw"
            /\ ret' = [kind |-> "threw", totalCreated |-> 0, rootNodeIds |-> <<>>]
            /\ UNCHANGED <<levelIdx, previousLevelIds, requests, callLog>>
    /\ UNCHANGED <<urlNode, text, position, tree, parentId, levels,
                   totalCreated, rootNodeIds, docNodes, nextId>>

\* An awaited call rejects (DynalistClient.request throws): the handler has
\* no try/catch, so the error leaves it.
HandlerThrow ==
    /\ UNCHANGED <<renderVars, toolVars, parseVars, navVars, inboxVars>>
    /\ pc \in {"read_wait", "edit_wait"}
    /\ responses # <<>>
    /\ ~Head(responses).ok
    /\ responses' = Tail(responses)
    /\ pc' = "threw"
    /\ ret' = [kind |-> "threw", totalCreated |-> 0, rootNodeIds |-> <<>>]
    /\ UNCHANGED <<urlNode, text, position, tree, parentId, levels, levelIdx,
                   totalCreated, rootNodeIds, previousLevelIds, requests, callLog,
                   docNodes, nextId>>

\* The remote serves /doc/read.
RemoteRead ==
    /\ UNCHANGED <<renderVars, toolVars, parseVars, navVars, inboxVars>>
    /\ requests # <<>>
    /\ Head(requests).op = "read"
    /\ requests' = Tail(requests)
    /\ responses' = Append(responses, [op |-> "read", ok |-> TRUE, nodes |-> docNodes,
                                       new_node_ids |-> <<>>])
    /\ UNCHANGED <<pc, urlNode, text, position, tree, parentId, levels, levelIdx,
                   totalCreated, rootNodeIds, previousLevelIds, ret, callLog,
                   docNodes, nextId>>

\* The remote applies a /doc/edit batch and answers with the new ids in the
\* order of the insert entries.
RemoteEdit ==
    /\ UNCHANGED <<renderVars, toolVars, parseVars, navVars, inboxVars>>
    /\ requests # <<>>
    /\ Head(requests).op = "edit"
    /\ LET changes == Head(requests).changes
           newIds == [j \in 1..Len(changes) |-> nextId + j - 1]
       IN  /\ \A j \in DOMAIN changes : HasId(docNodes, changes[j].parent_id)
           /\ docNodes' = ApplyChanges(docNodes, changes, nextId)
           /\ nextId' = nextId + Len(changes)
           /\ responses' = Append(responses, [op |-> "edit", ok |-> TRUE, nodes |-> <<>>,
                                              new_node_ids |-> newIds])
           /\ callLog' = [callLog EXCEPT ![Len(callLog)].status = "ok",
                                         ![Len(callLog)].new_node_ids = newIds]
    /\ requests' = Tail(requests)
    /\ UNCHANGED <<pc, urlNode, text, position, tree, parentId, levels, levelIdx,
                   totalCreated, rootNodeIds, previousLevelIds, ret>>

\* The remote answers a call with _code other than "ok" and changes nothing.
RemoteReject ==
    /\ UNCHANGED <<renderVars, toolVars, parseVars, navVars, inboxVars>>
    /\ requests # <<>>
    /\ requests' = Tail(requests)
    /\ responses' = Append(responses, [op |-> Head(requests).op, ok |-> FALSE,
                                       nodes |-> <<>>, new_node_ids |-> <<>>])
    /\ callLog' = IF Head(requests).op = "edit"
                  THEN [callLog EXCEPT ![Len(callLog)].status = "failed"]
                  ELSE callLog
    /\ UNCHANGED <<pc, urlNode, text, position, tree, parentId, levels, levelIdx,
                   totalCreated, rootNodeIds, previousLevelIds, ret, docNodes, nextId>>

----------------------------------------------------------------------------
(* The inputs of insert_nodes_from_markdown.                               *)

RootId == 1

\* The content of the i-th line: lines 1 and 3 share their content.
LineContent(i) == IF i % 2 = 1 THEN <<"a">> ELSE <<"b">>

\* A line: 4 spaces per level, a "- " bullet, the content.
BulletLine(level, content) == Repeat(<<" ">>, 4 * level) \o <<"-", " ">> \o content \o <<"\n">>

\* The text whose i-th line is indented lv[i] levels.
TextOf(lv) == Concat([i \in 1..Len(lv) |-> BulletLine(lv[i], LineContent(i))])

\* "- Buy milk\n    - 2% milk\n- Call mom"
ExampleText ==
    <<"-", " ", "B", "u", "y", " ", "m", "i", "l", "k", "\n",
      " ", " ", " ", " ", "-", " ", "2", "%", " ", "m", "i", "l", "k", "\n",
      "-", " ", "C", "a", "l", "l", " ", "m", "o", "m">>

InputTexts ==
    {TextOf(lv) : lv \in UNION {[1..n -> 0..MaxLevel] : n \in 0..MaxLines}}
        \cup {ExampleText}

\* A document whose root has e children, in list order root, child 1, ...
InitialDoc(e) ==
    [i \in 1..(e + 1) |->
        IF i = 1
        THEN [NewNode(RootId, <<>>, FALSE) EXCEPT !.children = [k \in 1..e |-> RootId + k]]
        ELSE NewNode(RootId + i - 1, <<"x">>, FALSE)]

NoCall == [dir |-> "none", op |-> "none", changes |-> <<>>, ok |-> TRUE, nodes |-> <<>>]

NoArgs == [tool |-> "none", doc |-> NoId, node |-> NoId, refDoc |-> NoId, refNode |-> NoId,
           position |-> "after", include_children |-> FALSE, fields |-> <<>>]

NoResult == [kind |-> "none", text |-> "none", count |-> 0, markdown |-> <<>>]

NavIdle ==
    /\ navPc = "idle"
    /\ navNodes = <<>>
    /\ navId = NoId
    /\ navLevels = 0
    /\ navRes = [fn |-> "none", value |-> <<>>]

InboxIdle ==
    /\ iphase = "idle"
    /\ icheckbox = FALSE
    /\ firstNodeId = NoId
    /\ topIdx = 0
    /\ topRootIds = <<>>
    /\ inboxTotal = 0
    /\ inboxNode = NoId
    /\ inboxTop = FALSE

ParseIdle ==
    /\ ppc = "idle"
    /\ ptext = <<>>
    /\ punit = 0
    /\ pflat = <<>>
    /\ ptree = <<>>
    /\ plevels = <<>>

ToolIdle ==
    /\ tpc = "idle"
    /\ targs = NoArgs
    /\ tdoc = <<>>
    /\ tnet = NoCall
    /\ tlog = <<>>
    /\ tread = <<>>
    /\ tret = NoResult

RenderIdle ==
    /\ rnodes = <<>>
    /\ ropts = [hasMaxDepth |-> FALSE, maxDepth |-> 0, includeNotes |-> TRUE,
                includeChecked |-> TRUE]
    /\ rstart = NoId
    /\ rpc = "idle"
    /\ rout = <<>>
    /\ rparsed = <<>>

InitInsert ==
    /\ pc = "start"
    /\ text \in InputTexts
    /\ position \in {"as_first_child", "as_last_child"}
    /\ \E e \in 0..MaxExisting :
          /\ docNodes = InitialDoc(e)
          /\ nextId = RootId + e + 1
          /\ urlNode \in {NoId, RootId + e}
    /\ tree = <<>>
    /\ parentId = NoId
    /\ levels = <<>>
    /\ levelIdx = 0
    /\ totalCreated = 0
    /\ rootNodeIds = <<>>
    /\ previousLevelIds = <<>>
    /\ ret = [kind |-> "none", totalCreated |-> 0, rootNodeIds |-> <<>>]
    /\ requests = <<>>
    /\ responses = <<>>
    /\ callLog = <<>>
    /\ RenderIdle
    /\ ToolIdle
    /\ ParseIdle
    /\ NavIdle
    /\ InboxIdle

NextInsert ==
    \/ ToolStart
    \/ ReadReturn
    \/ EditReturn
    \/ HandlerThrow
    \/ RemoteRead
    \/ RemoteEdit
    \/ RemoteReject

SpecInsert == InitInsert /\ [][NextInsert]_vars

----------------------------------------------------------------------------
(* node-to-markdown: nodeToMarkdown, renderNode, formatBullet,             *)
(* formatContent, documentToMarkdown.                                      *)

\* A plausible slip: a two-space indent unit.
Indent_Two == <<" ", " ">>

\* DEFAULT_OPTIONS.indent
Indent == <<" ", " ", " ", " ">>

\* buildNodeMap(nodes).get(id): the place of the last node with that id
\* (Map.set overwrites), 0 when there is none.
NodeMapIdx(nodes, id) ==
    LET at == {i \in DOMAIN nodes : nodes[i].id = id}
    IN  IF at = {} THEN 0 ELSE CHOOSE i \in at : \A j \in at : j <= i

\* A plausible slip: the heading is looked at before the checkbox.
formatBullet_HeadingFirst(node) ==
    IF node.heading > 0 THEN Repeat(<<"#">>, node.heading) \o <<" ">>
    ELSE IF node.checkbox
    THEN (IF node.checked THEN <<"-", " ", "[", "x", "]", " ">>
                          ELSE <<"-", " ", "[", " ", "]", " ">>)
    ELSE <<"-", " ">>

\* A plausible slip: the bullet is written without the space after it.
formatBullet_NoSpace(node) == <<"-">>

formatBullet(node) ==
    IF node.checkbox
    THEN (IF node.checked THEN <<"-", " ", "[", "x", "]", " ">>
                          ELSE <<"-", " ", "[", " ", "]", " ">>)
    ELSE IF node.heading > 0 THEN Repeat(<<"#">>, node.heading) \o <<" ">>
    ELSE <<"-", " ">>

formatContent(node) == node.content

\* A plausible slip: only checkbox items count as checked.
SkipChecked_BoxOnly(node, options) ==
    ~options.includeChecked /\ node.checkbox /\ node.checked

\* if (!options.includeChecked && node.checked) return ""
SkipChecked(node, options) == ~options.includeChecked /\ node.checked

\* A plausible slip: the limit is compared with >=.
BeyondMaxDepth_Strict(depth, options) == options.hasMaxDepth /\ depth >= options.maxDepth

\* if (depth > options.maxDepth) return ""  (maxDepth undefined or Infinity:
\* never)
BeyondMaxDepth(depth, options) == options.hasMaxDepth /\ depth > options.maxDepth

\* A plausible slip: the sub-bullets of a note at the depth of the node.
NoteLines_SameLevel(node, depth, options) ==
    IF options.includeNotes /\ Trim(node.note) # <<>>
    THEN LET noteLines == SelectSeq(Split(node.note, "\n"), LAMBDA l : Trim(l) # <<>>)
         IN  [k \in 1..Len(noteLines) |->
                [node |-> node.id, kind |-> "note", depth |-> depth,
                 text |-> Repeat(Indent, depth) \o <<"-", " ">>
                              \o Trim(noteLines[k]) \o <<"\n">>]]
    ELSE <<>>

\* The sub-bullets of a note: one per non-blank line, trimmed.
NoteLines(node, depth, options) ==
    IF options.includeNotes /\ Trim(node.note) # <<>>
    THEN LET noteLines == SelectSeq(Split(node.note, "\n"), LAMBDA l : Trim(l) # <<>>)
         IN  [k \in 1..Len(noteLines) |->
                [node |-> node.id, kind |-> "note", depth |-> depth + 1,
                 text |-> Repeat(Indent, depth + 1) \o <<"-", " ">>
                              \o Trim(noteLines[k]) \o <<"\n">>]]
    ELSE <<>>

\* renderNode, as the sequence of the lines it appends to result; each line
\* remembers the node it was written for.  The string the code returns is
\* RenderText of it.
RECURSIVE renderNode(_, _, _, _)
renderNode(nodes, nodeId, depth, options) ==
    LET idx == NodeMapIdx(nodes, nodeId) IN
    IF idx = 0 THEN <<>>
    ELSE LET node == nodes[idx] IN
         IF SkipChecked(node, options) THEN <<>>
         ELSE IF BeyondMaxDepth(depth, options) THEN <<>>
         ELSE LET content == formatContent(node)
                  own == IF content # <<>> \/ Len(node.children) > 0
                         THEN <<[node |-> node.id, kind |-> "node", depth |-> depth,
                                 text |-> Repeat(Indent, depth) \o formatBullet(node)
                                              \o content \o <<"\n">>]>>
                         ELSE <<>>
              IN  own \o NoteLines(node, depth, options)
                      \o Concat([k \in 1..Len(node.children) |->
                                    renderNode(nodes, node.children[k], depth + 1, options)])

RenderText(lines) == Concat([k \in 1..Len(lines) |-> lines[k].text])

\* The ids renderNode can reach from the ids in S: the children of the nodes
\* it does not skip.
RECURSIVE ReachFrom(_, _, _)
ReachFrom(nodes, S, options) ==
    LET shown == {id \in S : NodeMapIdx(nodes, id) # 0
                              /\ ~SkipChecked(nodes[NodeMapIdx(nodes, id)], options)}
        more == UNION {{nodes[NodeMapIdx(nodes, id)].children[k] :
                          k \in DOMAIN nodes[NodeMapIdx(nodes, id)].children} : id \in shown}
    IN  IF more \subseteq S THEN S ELSE ReachFrom(nodes, S \cup more, options)

\* renderNode never returns (the recursion exhausts the stack and the call
\* throws RangeError): no depth limit and a cycle of children it can reach.
Diverges(nodes, S, options) ==
    /\ ~options.hasMaxDepth
    /\ \E id \in ReachFrom(nodes, S, options) :
          /\ NodeMapIdx(nodes, id) # 0
          /\ ~SkipChecked(nodes[NodeMapIdx(nodes, id)], options)
          /\ LET kids == nodes[NodeMapIdx(nodes, id)].children
             IN  id \in ReachFrom(nodes, {kids[k] : k \in DOMAIN kids}, options)

\* A plausible slip: the first node of the list is taken for the root.
DocRoot_FirstNode(nodes) == IF nodes = <<>> THEN 0 ELSE 1

\* nodes.find(n => !nodes.some(other => other.children.includes(n.id))): the
\* place of the first node no node lists as a child, 0 when there is none.
DocRoot(nodes) ==
    LET free == {i \in DOMAIN nodes : nodes[i].id \notin ChildIds(nodes)}
    IN  IF free = {} THEN 0 ELSE CHOOSE i \in free : \A j \in free : i <= j

documentToMarkdown(nodes, options) ==
    LET r == DocRoot(nodes) IN
    IF r = 0 THEN <<>>
    ELSE Concat([k \in 1..Len(nodes[r].children) |->
                    renderNode(nodes, nodes[r].children[k], 0, options)])

nodeToMarkdown(nodes, rootNodeId, options) == renderNode(nodes, rootNodeId, 0, options)

\* The ids the top-level renderNode calls of documentToMarkdown start from.
DocStarts(nodes) ==
    LET r == DocRoot(nodes) IN
    IF r = 0 THEN {} ELSE {nodes[r].children[k] : k \in DOMAIN nodes[r].children}

----------------------------------------------------------------------------
(* The renderer applied to a node list, and the parser applied to what it  *)
(* rendered.                                                               *)

NodeToMarkdown ==
    /\ UNCHANGED <<insertVars, toolVars, parseVars, navVars, inboxVars>>
    /\ rpc = "input"
    /\ rstart # NoId
    /\ IF Diverges(rnodes, {rstart}, ropts)
       THEN rpc' = "threw" /\ rout' = <<>>
       ELSE rpc' = "rendered" /\ rout' = nodeToMarkdown(rnodes, rstart, ropts)
    /\ UNCHANGED <<rnodes, ropts, rstart, rparsed>>

DocumentToMarkdown ==
    /\ UNCHANGED <<insertVars, toolVars, parseVars, navVars, inboxVars>>
    /\ rpc = "input"
    /\ rstart = NoId
    /\ IF Diverges(rnodes, DocStarts(rnodes), ropts)
       THEN rpc' = "threw" /\ rout' = <<>>
       ELSE rpc' = "rendered" /\ rout' = documentToMarkdown(rnodes, ropts)
    /\ UNCHANGED <<rnodes, ropts, rstart, rparsed>>

ParseRendered ==
    /\ UNCHANGED <<insertVars, toolVars, parseVars, navVars, inboxVars>>
    /\ rpc = "rendered"
    /\ rparsed' = parseMarkdownBullets(RenderText(rout))
    /\ rpc' = "parsed"
    /\ UNCHANGED <<rnodes, ropts, rstart, rout>>

NextRender ==
    \/ NodeToMarkdown
    \/ DocumentToMarkdown
    \/ ParseRendered

----------------------------------------------------------------------------
(* The inputs of the renderer.                                             *)

InsertIdle ==
    /\ pc = "idle"
    /\ urlNode = NoId
    /\ text = <<>>
    /\ position = "as_last_child"
    /\ tree = <<>>
    /\ parentId = NoId
    /\ levels = <<>>
    /\ levelIdx = 0
    /\ totalCreated = 0
    /\ rootNodeIds = <<>>
    /\ previousLevelIds = <<>>
    /\ ret = [kind |-> "none", totalCreated |-> 0, rootNodeIds |-> <<>>]
    /\ requests = <<>>
    /\ responses = <<>>
    /\ callLog = <<>>
    /\ docNodes = <<>>
    /\ nextId = RootId

\* The display fields of a DynalistNode.
Profile(content, note, checkbox, checked, heading) ==
    [content |-> content, note |-> note, checkbox |-> checkbox, checked |-> checked,
     heading |-> heading]

PPlain == Profile(<<"a">>, <<>>, FALSE, FALSE, 0)
PEmpty == Profile(<<>>, <<>>, FALSE, FALSE, 0)
PCheckedBox == Profile(<<"c">>, <<"n">>, TRUE, TRUE, 0)
PNoted == Profile(<<"d">>, <<"n", "\n", "\n", " ", "m">>, FALSE, FALSE, 0)
PCheckedNoBox == Profile(<<"e">>, <<>>, FALSE, TRUE, 0)

RenderProfiles == {PPlain, PEmpty, PCheckedBox, PNoted, PCheckedNoBox}

\* The ids, in ascending order, of the nodes whose parent is i.
RECURSIVE ChildrenFrom(_, _, _)
ChildrenFrom(par, i, j) ==
    IF j > Len(par) THEN <<>>
    ELSE IF par[j] = i THEN <<j>> \o ChildrenFrom(par, i, j + 1)
    ELSE ChildrenFrom(par, i, j + 1)

\* The node list of the graph in which par[i] is the node that lists i as a
\* child (0: none), node i showing prof[i]; in order of id, or reversed.
DocOf(par, prof, reversed) ==
    LET n == Len(par)
        node(i) == [id |-> i, content |-> prof[i].content, note |-> prof[i].note,
                    children |-> ChildrenFrom(par, i, 1), checkbox |-> prof[i].checkbox,
                    checked |-> prof[i].checked, heading |-> prof[i].heading]
    IN  [k \in 1..n |-> node(IF reversed THEN n + 1 - k ELSE k)]

\* Trees: node 1 is the root and the parent of a node has a smaller id.
TreeParents(n) == {par \in [1..n -> 0..n] : \A i \in 1..n : IF i = 1 THEN par[i] = 0
                                                        ELSE par[i] \in 1..(i - 1)}

\* Any graph in which a node is listed by at most one node: forests, cycles,
\* self references.
GraphParents(n) == [1..n -> 0..n]

OptionSets(notes, checkeds) ==
    {[hasMaxDepth |-> h, maxDepth |-> d, includeNotes |-> nt, includeChecked |-> ck] :
        h \in {TRUE}, d \in 0..MaxMaxDepth, nt \in notes, ck \in checkeds}
    \cup {[hasMaxDepth |-> FALSE, maxDepth |-> 0, includeNotes |-> nt, includeChecked |-> ck] :
            nt \in notes, ck \in checkeds}

RenderStart ==
    /\ rpc = "input"
    /\ rout = <<>>
    /\ rparsed = <<>>

\* Trees whose nodes show every mix of the profiles, every option.
InitRender ==
    /\ InsertIdle
    /\ ToolIdle
    /\ ParseIdle
    /\ NavIdle
    /\ InboxIdle
    /\ \E n \in 1..MaxRNodes : \E par \in TreeParents(n) : \E prof \in [1..n -> RenderProfiles] :
          /\ rnodes = DocOf(par, prof, FALSE)
          /\ rstart \in {NoId} \cup (1..n \cap 1..2)
    /\ ropts \in OptionSets(BOOLEAN, BOOLEAN)
    /\ RenderStart

\* The renderer alone.
NextRenderOnly ==
    \/ NodeToMarkdown
    \/ DocumentToMarkdown

SpecRender == InitRender /\ [][NextRenderOnly]_vars

\* The content of node i of a graph: a letter of its own.
Letter(i) == <<<<"a">>, <<"b">>, <<"c">>, <<"d">>, <<"e">>, <<"f">>>>[((i - 1) % 6) + 1]

\* Any graph of plain nodes, in either list order.
InitDoc ==
    /\ InsertIdle
    /\ ToolIdle
    /\ ParseIdle
    /\ NavIdle
    /\ InboxIdle
    /\ \E n \in 0..MaxRNodes : \E par \in GraphParents(n) : \E reversed \in BOOLEAN :
          /\ rnodes = DocOf(par, [i \in 1..n |-> Profile(Letter(i), <<>>, FALSE, FALSE, 0)],
                            reversed)
          /\ rstart \in {NoId} \cup 1..n
    /\ ropts \in OptionSets({TRUE}, {TRUE})
    /\ RenderStart

SpecDoc == InitDoc /\ [][NextRenderOnly]_vars

----------------------------------------------------------------------------
(* dynalist-client: findNodeParent.  The remote's move and delete entries. *)

\* 0-based position of the first occurrence of x in s, -1 when absent
\* (Array.prototype.indexOf).
IndexOf(s, x) ==
    IF \E k \in DOMAIN s : s[k] = x
    THEN (CHOOSE k \in DOMAIN s : s[k] = x /\ \A j \in 1..(k - 1) : s[j] # x) - 1
    ELSE -1

HasParent(nodes, nodeId) == \E i \in DOMAIN nodes : IndexOf(nodes[i].children, nodeId) # -1

\* A plausible slip: the last node of the list that lists nodeId wins.
findNodeParent_LastNode(nodes, nodeId) ==
    LET i == CHOOSE k \in DOMAIN nodes :
                 /\ IndexOf(nodes[k].children, nodeId) # -1
                 /\ \A j \in (k + 1)..Len(nodes) : IndexOf(nodes[j].children, nodeId) = -1
    IN  [parentId |-> nodes[i].id, index |-> IndexOf(nodes[i].children, nodeId)]

\* The first node of the list that lists nodeId, with the index there.
findNodeParent(nodes, nodeId) ==
    LET i == CHOOSE k \in DOMAIN nodes :
                 /\ IndexOf(nodes[k].children, nodeId) # -1
                 /\ \A j \in 1..(k - 1) : IndexOf(nodes[j].children, nodeId) = -1
    IN  [parentId |-> nodes[i].id, index |-> IndexOf(nodes[i].children, nodeId)]

\* s without any occurrence of x.
Without(s, x) == SelectSeq(s, LAMBDA y : y # x)

\* The ids reachable from the ids of set S through children.
RECURSIVE ReachSet(_, _)
ReachSet(nodes, S) ==
    LET more == S \cup UNION {{nodes[i].children[k] : k \in DOMAIN nodes[i].children} :
                                 i \in {j \in DOMAIN nodes : nodes[j].id \in S}}
    IN  IF more = S THEN S ELSE ReachSet(nodes, more)

\* The ids strictly below id.
Below(nodes, id) ==
    LET kids == UNION {{nodes[i].children[k] : k \in DOMAIN nodes[i].children} :
                          i \in {j \in DOMAIN nodes : nodes[j].id = id}}
    IN  IF kids = {} THEN {} ELSE ReachSet(nodes, kids)

\* A move entry the remote can carry out: both nodes exist and the new
\* parent is neither the node nor below it.
MoveValid(nodes, e) ==
    /\ HasId(nodes, e.node_id)
    /\ HasId(nodes, e.parent_id)
    /\ e.parent_id # e.node_id
    /\ e.parent_id \notin Below(nodes, e.node_id)

\* One move entry applied: the node leaves the children it is listed in and
\* joins the children of its new parent at the entry's index, which is its
\* index there after the move (-1 = append).
ApplyMove(nodes, e) ==
    IF ~MoveValid(nodes, e) THEN nodes
    ELSE [i \in DOMAIN nodes |->
             LET rest == Without(nodes[i].children, e.node_id)
             IN  [nodes[i] EXCEPT !.children =
                     IF nodes[i].id = e.parent_id THEN InsertAt(rest, e.index, e.node_id)
                     ELSE rest]]

\* s with every occurrence of x replaced by the elements of r.
RECURSIVE Splice(_, _, _)
Splice(s, x, r) ==
    IF s = <<>> THEN <<>>
    ELSE (IF Head(s) = x THEN r ELSE <<Head(s)>>) \o Splice(Tail(s), x, r)

\* One delete entry applied: the node leaves the list and its children take
\* its place among the children of its former parent.
ApplyDelete(nodes, e) ==
    IF ~HasId(nodes, e.node_id) THEN nodes
    ELSE LET gone == nodes[NodeMapIdx(nodes, e.node_id)]
             kept == SelectSeq(nodes, LAMBDA n : n.id # e.node_id)
         IN  [i \in DOMAIN kept |->
                 [kept[i] EXCEPT !.children = Splice(@, e.node_id, gone.children)]]

\* The move and delete entries of a batch applied in order.
RECURSIVE ApplyEdits(_, _)
ApplyEdits(nodes, changes) ==
    IF changes = <<>> THEN nodes
    ELSE LET e == Head(changes)
         IN  ApplyEdits(IF e.action = "move" THEN ApplyMove(nodes, e) ELSE ApplyDelete(nodes, e),
                        Tail(changes))

----------------------------------------------------------------------------
(* tools: the handlers of move_node_relative, delete_node and              *)
(* read_node_as_markdown.  An action is the code between two awaits.       *)

\* A plausible slip: the moved node and its new parent change places.
MoveEntry_Swapped(nodeId, parent, index) ==
    [action |-> "move", node_id |-> parent, parent_id |-> nodeId, index |-> index]

MoveEntry(nodeId, parent, index) ==
    [action |-> "move", node_id |-> nodeId, parent_id |-> parent, index |-> index]

DeleteEntry(nodeId) ==
    [action |-> "delete", node_id |-> nodeId, parent_id |-> NoId, index |-> 0]

ErrorResult(msg) == [kind |-> "error", text |-> msg, count |-> 0, markdown |-> <<>>]

OkResult(count, markdown) == [kind |-> "ok", text |-> "ok", count |-> count, markdown |-> markdown]

\* The handler returns isError without awaiting anything further.
ReturnError(msg) ==
    /\ tpc' = "returned"
    /\ tret' = ErrorResult(msg)
    /\ UNCHANGED <<tnet, tlog>>

\* client.readDocument(documentId) is called and awaited.
CallRead ==
    /\ tnet' = [NoCall EXCEPT !.dir = "req", !.op = "read"]
    /\ tlog' = Append(tlog, [op |-> "read", changes |-> <<>>])
    /\ tpc' = "read_wait"
    /\ UNCHANGED tret

\* client.editDocument(documentId, changes) is called and awaited.
CallEdit(changes) ==
    /\ tnet' = [NoCall EXCEPT !.dir = "req", !.op = "edit", !.changes = changes]
    /\ tlog' = Append(tlog, [op |-> "edit", changes |-> changes])
    /\ tpc' = "edit_wait"
    /\ UNCHANGED tret

\* A plausible slip: the document ids of the two urls are not compared.
SameDocument_Any(a, b) == TRUE

\* sourceParsed.documentId !== refParsed.documentId
SameDocument(a, b) == a = b

\* move_node_relative up to its readDocument.
MoveStart ==
    /\ UNCHANGED <<insertVars, renderVars, parseVars, navVars, inboxVars>>
    /\ tpc = "start"
    /\ targs.tool = "move_node_relative"
    /\ IF targs.node = NoId THEN ReturnError("source_url must include a node deep link")
       ELSE IF targs.refNode = NoId THEN ReturnError("reference_url must include a node deep link")
       ELSE IF ~SameDocument(targs.doc, targs.refDoc) THEN ReturnError("Both nodes must be in the same document")
       ELSE CallRead
    /\ UNCHANGED <<targs, tdoc, tread>>

\* targetIndex = position === "after" ? refParentInfo.index + 1 : refParentInfo.index
TargetIndex(where, index) == IF where = "after" THEN index + 1 ELSE index

\* move_node_relative from the answer of readDocument to its editDocument.
MoveReadReturn ==
    /\ UNCHANGED <<insertVars, renderVars, parseVars, navVars, inboxVars>>
    /\ tpc = "read_wait"
    /\ targs.tool = "move_node_relative"
    /\ tnet.dir = "resp" /\ tnet.ok
    /\ tread' = tnet.nodes
    /\ IF targs.position = "as_first_child"
       THEN CallEdit(<<MoveEntry(targs.node, targs.refNode, 0)>>)
       ELSE IF targs.position = "as_last_child"
       THEN CallEdit(<<MoveEntry(targs.node, targs.refNode, -1)>>)
       ELSE IF ~HasParent(tnet.nodes, targs.refNode)
       THEN /\ tpc' = "returned"
            /\ tret' = ErrorResult("Could not find parent of reference node")
            /\ tnet' = NoCall
            /\ UNCHANGED tlog
       ELSE LET info == findNodeParent(tnet.nodes, targs.refNode)
            IN  CallEdit(<<MoveEntry(targs.node, info.parentId,
                                     TargetIndex(targs.position, info.index))>>)
    /\ UNCHANGED <<targs, tdoc>>

\* delete_node up to its first await.
DeleteStart ==
    /\ UNCHANGED <<insertVars, renderVars, parseVars, navVars, inboxVars>>
    /\ tpc = "start"
    /\ targs.tool = "delete_node"
    /\ IF targs.doc = NoId THEN ReturnError("Either 'url' or 'file_id' must be provided")
       ELSE IF targs.include_children THEN CallRead
       ELSE CallEdit(<<DeleteEntry(targs.node)>>)
    /\ UNCHANGED <<targs, tdoc, tread>>

\* collectDescendants: the id, then the collections of its children in
\* order; an id the map does not hold is collected and has no children.
RECURSIVE collectDescendants(_, _)
collectDescendants(nodes, id) ==
    IF ~HasId(nodes, id) THEN <<id>>
    ELSE LET kids == nodes[NodeMapIdx(nodes, id)].children
         IN  <<id>> \o Concat([k \in DOMAIN kids |-> collectDescendants(nodes, kids[k])])

\* collectDescendants(id) never returns: a cycle of children lies at or
\* below id.  The recursion ends in a RangeError of the runtime.
CollectOverflows(nodes, id) == \E x \in ReachSet(nodes, {id}) : x \in Below(nodes, x)

\* A plausible slip: the entries go out in collection order, parents first.
DeleteOrder_Forward(ids) == ids

\* nodesToDelete.reverse()
DeleteOrder(ids) == [k \in DOMAIN ids |-> ids[Len(ids) + 1 - k]]

\* delete_node with include_children from the answer of readDocument to its
\* editDocument.
DeleteReadReturn ==
    /\ UNCHANGED <<insertVars, renderVars, parseVars, navVars, inboxVars>>
    /\ tpc = "read_wait"
    /\ targs.tool = "delete_node"
    /\ tnet.dir = "resp" /\ tnet.ok
    /\ tread' = tnet.nodes
    /\ IF CollectOverflows(tnet.nodes, targs.node)
       THEN /\ tpc' = "threw"
            /\ tret' = [NoResult EXCEPT !.kind = "threw", !.text = "RangeError"]
            /\ tnet' = NoCall
            /\ UNCHANGED tlog
       ELSE LET order == DeleteOrder(collectDescendants(tnet.nodes, targs.node))
            IN  CallEdit([k \in DOMAIN order |-> DeleteEntry(order[k])])
    /\ UNCHANGED <<targs, tdoc>>

\* if (nodeId) { if (!nodeMap.has(nodeId)) ...
NodeMissing(nodes, id) == id # NoId /\ ~HasId(nodes, id)

\* read_node_as_markdown up to its readDocument.
ReadNodeStart ==
    /\ UNCHANGED <<insertVars, renderVars, parseVars, navVars, inboxVars>>
    /\ tpc = "start"
    /\ targs.tool = "read_node_as_markdown"
    /\ IF targs.doc = NoId THEN ReturnError("Either 'url' or 'file_id' must be provided")
       ELSE CallRead
    /\ UNCHANGED <<targs, tdoc, tread>>

DefaultOptions == [hasMaxDepth |-> FALSE, maxDepth |-> 0, includeNotes |-> TRUE,
                   includeChecked |-> TRUE]

\* read_node_as_markdown from the answer of readDocument to its return.
ReadNodeReadReturn ==
    /\ UNCHANGED <<insertVars, renderVars, parseVars, navVars, inboxVars>>
    /\ tpc = "read_wait"
    /\ targs.tool = "read_node_as_markdown"
    /\ tnet.dir = "resp" /\ tnet.ok
    /\ tread' = tnet.nodes
    /\ tnet' = NoCall
    /\ LET nodes == tnet.nodes
           starts == IF targs.node # NoId THEN {targs.node} ELSE DocStarts(nodes)
       IN  IF NodeMissing(nodes, targs.node)
           THEN /\ tpc' = "returned"
                /\ tret' = ErrorResult("Node not found in document")
           ELSE IF Diverges(nodes, starts, DefaultOptions)
           THEN /\ tpc' = "threw"
                /\ tret' = [NoResult EXCEPT !.kind = "threw", !.text = "RangeError"]
           ELSE /\ tpc' = "returned"
                /\ tret' = OkResult(0, RenderText(IF targs.node # NoId
                                                  THEN nodeToMarkdown(nodes, targs.node, DefaultOptions)
                                                  ELSE documentToMarkdown(nodes, DefaultOptions)))
    /\ UNCHANGED <<targs, tdoc, tlog>>

\* deletedCount: 1, or nodesToDelete.length with include_children.
DeletedCount(changes) == Len(changes)

\* editDocument resolves: move_node_relative and delete_node report success.
ToolEditReturn ==
    /\ UNCHANGED <<insertVars, renderVars, parseVars, navVars, inboxVars>>
    /\ tpc = "edit_wait"
    /\ tnet.dir = "resp" /\ tnet.ok
    /\ tnet' = NoCall
    /\ tpc' = "returned"
    /\ tret' = OkResult(IF targs.tool = "delete_node"
                        THEN DeletedCount(tlog[Len(tlog)].changes) ELSE 0, <<>>)
    /\ UNCHANGED <<targs, tdoc, tlog, tread>>

\* An awaited call rejects (DynalistClient.request throws): the handlers
\* have no try/catch, so the error leaves them.
ToolThrow ==
    /\ UNCHANGED <<insertVars, renderVars, parseVars, navVars, inboxVars>>
    /\ tpc \in {"read_wait", "edit_wait"}
    /\ tnet.dir = "resp" /\ ~tnet.ok
    /\ tnet' = NoCall
    /\ tpc' = "threw"
    /\ tret' = [NoResult EXCEPT !.kind = "threw", !.text = "request failed"]
    /\ UNCHANGED <<targs, tdoc, tlog, tread>>

\* The remote serves /doc/read.
ToolRemoteRead ==
    /\ UNCHANGED <<insertVars, renderVars, parseVars, navVars, inboxVars>>
    /\ tnet.dir = "req" /\ tnet.op = "read"
    /\ tnet' = [NoCall EXCEPT !.dir = "resp", !.op = "read", !.nodes = tdoc]
    /\ UNCHANGED <<tpc, targs, tdoc, tlog, tread, tret>>

\* The remote applies a /doc/edit batch of move and delete entries.
ToolRemoteEdit ==
    /\ UNCHANGED <<insertVars, renderVars, parseVars, navVars, inboxVars>>
    /\ tnet.dir = "req" /\ tnet.op = "edit"
    /\ tdoc' = ApplyEdits(tdoc, tnet.changes)
    /\ tnet' = [NoCall EXCEPT !.dir = "resp", !.op = "edit"]
    /\ UNCHANGED <<tpc, targs, tlog, tread, tret>>

\* The remote answers a call with _code other than "ok" and changes nothing.
ToolRemoteReject ==
    /\ UNCHANGED <<insertVars, renderVars, parseVars, navVars, inboxVars>>
    /\ tnet.dir = "req"
    /\ tnet' = [NoCall EXCEPT !.dir = "resp", !.op = tnet.op, !.ok = FALSE]
    /\ UNCHANGED <<tpc, targs, tdoc, tlog, tread, tret>>

NextTools ==
    \/ MoveStart
    \/ MoveReadReturn
    \/ DeleteStart
    \/ DeleteReadReturn
    \/ ReadNodeStart
    \/ ReadNodeReadReturn
    \/ ToolEditReturn
    \/ ToolThrow
    \/ ToolRemoteRead
    \/ ToolRemoteEdit
    \/ ToolRemoteReject

----------------------------------------------------------------------------
(* The inputs of the three tools.                                          *)

\* Nodes of a document handed to the tools.
MaxTNodes == 4

\* The documents a url can name.
DocIds == {1, 2}

PlainDoc(par) == DocOf(par, [i \in 1..Len(par) |-> Profile(Letter(i), <<>>, FALSE, FALSE, 0)], FALSE)

\* nodes with one more reference: node i lists j once more, last.
WithEdge(nodes, i, j) ==
    [k \in DOMAIN nodes |->
        IF nodes[k].id = i THEN [nodes[k] EXCEPT !.children = Append(@, j)] ELSE nodes[k]]

\* Trees, and trees with one reference added: a cycle, a self reference, a
\* node two nodes list, a node listed twice.
ToolDocs ==
    UNION {{PlainDoc(par) : par \in TreeParents(n)} : n \in 1..MaxTNodes}
    \cup UNION {{WithEdge(PlainDoc(par), i, j) : par \in TreeParents(n), i \in 1..n, j \in 1..n} :
                   n \in 1..(MaxTNodes - 1)}

TreeDocs == UNION {{PlainDoc(par) : par \in TreeParents(n)} : n \in 1..MaxTNodes}

ToolStart0 ==
    /\ InsertIdle
    /\ RenderIdle
    /\ ParseIdle
    /\ NavIdle
    /\ InboxIdle
    /\ tpc = "start"
    /\ tnet = NoCall
    /\ tlog = <<>>
    /\ tread = <<>>
    /\ tret = NoResult

\* An id of the document, an id it does not hold, or no id at all.
NodeArgs(nodes) == 0..(Len(nodes) + 1)

InitTools ==
    /\ ToolStart0
    /\ \/ /\ tdoc \in TreeDocs
          /\ \E s \in NodeArgs(tdoc), r \in NodeArgs(tdoc), rd \in DocIds,
                p \in {"after", "before", "as_first_child", "as_last_child"} :
               targs = [tool |-> "move_node_relative", doc |-> 1, node |-> s, refDoc |-> rd,
                        refNode |-> r, position |-> p, include_children |-> FALSE,
                        fields |-> <<>>]
       \/ /\ tdoc \in ToolDocs
          /\ \E d \in {NoId, 1}, s \in NodeArgs(tdoc) \ {NoId}, ic \in BOOLEAN :
               targs = [NoArgs EXCEPT !.tool = "delete_node", !.doc = d, !.node = s,
                                      !.include_children = ic]
       \/ /\ tdoc \in ToolDocs
          /\ \E d \in {NoId, 1}, s \in NodeArgs(tdoc) :
               targs = [NoArgs EXCEPT !.tool = "read_node_as_markdown", !.doc = d, !.node = s]

SpecTools == InitTools /\ [][NextTools]_vars

----------------------------------------------------------------------------
(* move_node_relative, delete_node and read_node_as_markdown: what the     *)
(* handlers sent and what became of the document.                          *)

EditCalls == SelectSeq(tlog, LAMBDA c : c.op = "edit")

MoveCall == targs.tool = "move_node_relative"

\* The move asked for makes sense in the fetched document: both nodes are
\* there, they differ, the reference has a parent and does not lie below
\* the source.
MoveMeaningful ==
    /\ HasId(tread, targs.node)
    /\ HasId(tread, targs.refNode)
    /\ targs.node # targs.refNode
    /\ HasParent(tread, targs.refNode)
    /\ targs.refNode \notin Below(tread, targs.node)

MoveDone == MoveCall /\ tpc = "returned" /\ tret.kind = "ok"

\* C11: after the move entry of move_node_relative with position 'after'
\* (resp. 'before') is applied, the source is a child of the reference's
\* parent and sits immediately after (resp. before) the reference, wherever
\* the source was.
C11_MovedNextToReference ==
    (MoveDone /\ MoveMeaningful /\ targs.position \in {"after", "before"}) =>
        LET src == findNodeParent(tdoc, targs.node)
            ref == findNodeParent(tdoc, targs.refNode)
        IN  /\ src.parentId = findNodeParent(tread, targs.refNode).parentId
            /\ ref.parentId = src.parentId
            /\ src.index = IF targs.position = "after" THEN ref.index + 1 ELSE ref.index - 1

\* C12: move_node_relative whose two urls name different documents returns
\* an error and calls editDocument never (nor readDocument).
C12_CrossDocumentRejected ==
    (MoveCall /\ targs.doc # targs.refDoc) =>
        /\ tlog = <<>>
        /\ tpc \in {"start", "returned"}
        /\ tpc = "returned" => tret.kind = "error"

\* Both urls carry a node, the documents differ, the handler has returned.
C12_Witness ==
    /\ MoveCall /\ targs.doc # targs.refDoc
    /\ targs.node # NoId /\ targs.refNode # NoId
    /\ tpc = "returned"
    /\ tret = ErrorResult("Both nodes must be in the same document")

\* The handler has fetched the document.
Fetched == tread # <<>>

\* A node id the call supplies is absent from the fetched node list.
AbsentSupplied ==
    \/ targs.node # NoId /\ ~HasId(tread, targs.node)
    \/ MoveCall /\ targs.refNode # NoId /\ ~HasId(tread, targs.refNode)

\* C13: in every operation that fetches the document, a supplied node id
\* absent from the fetched list is reported as an error and no editDocument
\* call is made.
C13_AbsentIdNotFound ==
    (Fetched /\ AbsentSupplied) =>
        /\ EditCalls = <<>>
        /\ tpc = "returned" /\ tret.kind = "error"

DeleteWithChildren == targs.tool = "delete_node" /\ targs.include_children

NoRepeat(s) == \A i, j \in DOMAIN s : s[i] = s[j] => i = j

EntryIds(changes) == [k \in DOMAIN changes |-> changes[k].node_id]

\* C14: the descendant collection of delete_node with include_children
\* ends on every node list and collects no id twice.
C14_CollectOnceAndTerminates ==
    (DeleteWithChildren /\ Fetched) =>
        /\ tret.text # "RangeError"
        /\ \A c \in DOMAIN EditCalls : NoRepeat(EntryIds(EditCalls[c].changes))

\* C15: on a tree-shaped document delete_node with include_children sends
\* one batch; its entries are deletes of exactly the target and the nodes
\* below it, each node after everything below it; the count reported is the
\* number of entries, and the remote is left with the other nodes.
C15_DeleteInnermostFirst ==
    (DeleteWithChildren /\ Fetched /\ tread \in TreeDocs /\ HasId(tread, targs.node)) =>
        /\ Len(EditCalls) = 1
        /\ LET changes == EditCalls[1].changes
               ids == EntryIds(changes)
           IN  /\ \A k \in DOMAIN changes : changes[k].action = "delete"
               /\ {ids[k] : k \in DOMAIN ids} = {targs.node} \cup Below(tread, targs.node)
               /\ NoRepeat(ids)
               /\ \A i, j \in DOMAIN ids : ids[j] \in Below(tread, ids[i]) => j < i
               /\ (tpc = "returned") =>
                      /\ tret.kind = "ok"
                      /\ tret.count = Len(changes)
                      /\ {tdoc[k].id : k \in DOMAIN tdoc}
                            = {tread[k].id : k \in DOMAIN tread} \ {ids[k] : k \in DOMAIN ids}

\* A target with a child and a grandchild has been deleted with them.
C15_Witness ==
    /\ DeleteWithChildren /\ Fetched /\ tread \in TreeDocs
    /\ tpc = "returned" /\ tret.kind = "ok"
    /\ \E x \in Below(tread, targs.node) : Below(tread, x) # {}
    /\ tret.count >= 3

----------------------------------------------------------------------------
(* The rendered graph read directly (not through renderNode).              *)

NodeOf(id) == rnodes[NodeMapIdx(rnodes, id)]

KidSet(id) == {NodeOf(id).children[k] : k \in DOMAIN NodeOf(id).children}

\* The ids the top-level renderNode calls start from.
Starts == IF rstart # NoId THEN {rstart} ELSE DocStarts(rnodes)

\* In a tree: the ids at and below id with their depth, id being at depth d.
RECURSIVE DepthsBelow(_, _)
DepthsBelow(id, d) ==
    {<<id, d>>} \cup UNION {DepthsBelow(k, d + 1) : k \in KidSet(id)}

Depths == UNION {DepthsBelow(id, 0) : id \in Starts}

DepthOfId(id) == (CHOOSE x \in Depths : x[1] = id)[2]

\* In a tree: the ids at and below id that have a checked node on the way
\* from the start to them, themselves included.
RECURSIVE HiddenBelow(_, _)
HiddenBelow(id, above) ==
    LET h == above \/ NodeOf(id).checked IN
    (IF h THEN {id} ELSE {}) \cup UNION {HiddenBelow(k, h) : k \in KidSet(id)}

Hidden == UNION {HiddenBelow(id, FALSE) : id \in Starts}

\* The rendering of the same input under other options.
RenderWith(options) ==
    IF rstart # NoId THEN nodeToMarkdown(rnodes, rstart, options)
    ELSE documentToMarkdown(rnodes, options)

Rendered == rpc \in {"rendered", "parsed"}

HasLine(lines, id) == \E k \in DOMAIN lines : lines[k].node = id

----------------------------------------------------------------------------
(* C8: with includeChecked = false the rendering holds no line, node line  *)
(* or note line, of a checked node or of any node below one, and the       *)
(* lines of every other node are those of the rendering with               *)
(* includeChecked = true, in the same order.                               *)
C8_CheckedSubtreeOmitted ==
    (Rendered /\ ~ropts.includeChecked) =>
        /\ \A k \in DOMAIN rout : rout[k].node \notin Hidden
        /\ rout = SelectSeq(RenderWith([ropts EXCEPT !.includeChecked = TRUE]),
                            LAMBDA l : l.node \notin Hidden)

\* A checked node with an unchecked child below it that would have had a
\* line, beside lines that stay.
C8_Witness ==
    /\ Rendered
    /\ ~ropts.includeChecked
    /\ rout # <<>>
    /\ \E id \in Hidden :
          /\ ~NodeOf(id).checked
          /\ HasLine(RenderWith([ropts EXCEPT !.includeChecked = TRUE]), id)

\* C9 as stated: with maxDepth = 0 the rendering from a starting node holds
\* the lines of the immediate children of the starting node (and of no
\* grandchild).
C9_Original_ChildrenRendered ==
    (Rendered /\ ropts.hasMaxDepth /\ ropts.maxDepth = 0 /\ rstart # NoId) =>
        \A id \in KidSet(rstart) :
            HasLine(RenderWith([ropts EXCEPT !.hasMaxDepth = FALSE]), id) => HasLine(rout, id)

\* C9 as amended: the starting node of nodeToMarkdown, and every child of the
\* root for documentToMarkdown, is at depth 0; the rendering under maxDepth
\* holds exactly the lines of the unlimited rendering that belong to nodes of
\* depth <= maxDepth, so with maxDepth = 0 only the starting node itself (or
\* only the root's immediate children), and never a deeper node.
C9_DepthLimit ==
    (Rendered /\ ropts.hasMaxDepth) =>
        /\ rout = SelectSeq(RenderWith([ropts EXCEPT !.hasMaxDepth = FALSE]),
                            LAMBDA l : DepthOfId(l.node) <= ropts.maxDepth)
        /\ \A k \in DOMAIN rout : DepthOfId(rout[k].node) <= ropts.maxDepth
        /\ ropts.maxDepth = 0 => \A k \in DOMAIN rout : rout[k].node \in Starts

\* nodeToMarkdown with maxDepth = 0 from a node that has a child with a line
\* of its own in the unlimited rendering.
C9_Witness ==
    /\ Rendered
    /\ ropts.hasMaxDepth /\ ropts.maxDepth = 0
    /\ rstart # NoId
    /\ rout # <<>>
    /\ \E id \in KidSet(rstart) :
          HasLine(RenderWith([ropts EXCEPT !.hasMaxDepth = FALSE]), id)

----------------------------------------------------------------------------
(* The root the client's findRootNodeId infers, against documentToMarkdown. *)

Parentless == {i \in DOMAIN rnodes : rnodes[i].id \notin ChildIds(rnodes)}

\* The depth-0 renderings, in stored order, of the children of the node
\* whose id findRootNodeId returns.
RenderUnderFoundRoot ==
    LET idx == NodeMapIdx(rnodes, findRootNodeId(rnodes)) IN
    IF idx = 0 THEN <<>>
    ELSE Concat([k \in 1..Len(rnodes[idx].children) |->
                    renderNode(rnodes, rnodes[idx].children[k], 0, ropts)])

FoundRootKids ==
    LET idx == NodeMapIdx(rnodes, findRootNodeId(rnodes)) IN
    IF idx = 0 THEN {} ELSE {rnodes[idx].children[k] : k \in DOMAIN rnodes[idx].children}

\* C10 as stated: documentToMarkdown(nodes) is the concatenation of the
\* depth-0 renderings of the children of the node findRootNodeId returns,
\* also when no node is parentless and findRootNodeId falls back to the first
\* node.
C10_Original_FoundRoot ==
    (rpc = "rendered" /\ rstart = NoId /\ ~Diverges(rnodes, FoundRootKids, ropts)) =>
        rout = RenderUnderFoundRoot

\* C10 as amended: when some node is listed by no node, documentToMarkdown is
\* the concatenation of the depth-0 renderings of the children of the node
\* findRootNodeId returns (the first such node), and that node has no line;
\* when every node is listed as a child, documentToMarkdown is empty.
C10_DocumentRoot ==
    (rpc = "rendered" /\ rstart = NoId) =>
        IF Parentless # {}
        THEN /\ rout = RenderUnderFoundRoot
             /\ ~HasLine(rout, findRootNodeId(rnodes))
        ELSE rout = <<>>

\* A document whose root is not the first node of the list, rendered to at
\* least two lines.
C10_Witness ==
    /\ rpc = "rendered" /\ rstart = NoId
    /\ Parentless # {}
    /\ 1 \notin Parentless
    /\ Len(rout) >= 2

----------------------------------------------------------------------------
(* Rendering a tree and parsing the text back.                             *)

GoodProfiles ==
    {Profile(<<"a">>, <<>>, FALSE, FALSE, 0),
     Profile(<<"-", " ", "b">>, <<>>, FALSE, FALSE, 0),
     Profile(<<"c", " ", "d">>, <<>>, FALSE, FALSE, 0)}

OddProfiles ==
    {Profile(<<"1", ".", " ", "a">>, <<>>, FALSE, FALSE, 0),
     Profile(<<"2", ")", " ", "a">>, <<>>, FALSE, FALSE, 0),
     Profile(<<">", "a">>, <<>>, FALSE, FALSE, 0),
     Profile(<<">", " ", "a">>, <<>>, FALSE, FALSE, 0),
     Profile(<<" ", "a">>, <<>>, FALSE, FALSE, 0),
     Profile(<<"a", " ">>, <<>>, FALSE, FALSE, 0),
     Profile(<<"a", "\n", "b">>, <<>>, FALSE, FALSE, 0),
     Profile(<<>>, <<>>, FALSE, FALSE, 0),
     Profile(<<"a">>, <<>>, TRUE, FALSE, 0),
     Profile(<<"a">>, <<>>, TRUE, TRUE, 0),
     Profile(<<"a">>, <<>>, FALSE, FALSE, 1),
     Profile(<<"a">>, <<"n">>, FALSE, FALSE, 0),
     Profile(<<"a">>, <<" ">>, FALSE, FALSE, 0)}

\* Trees of good nodes, and trees of plain nodes with one odd node among
\* them.
InitRound ==
    /\ InsertIdle
    /\ ToolIdle
    /\ ParseIdle
    /\ NavIdle
    /\ InboxIdle
    /\ \E n \in 1..MaxRNodes : \E par \in TreeParents(n) :
          /\ \/ \E prof \in [1..n -> GoodProfiles] : rnodes = DocOf(par, prof, FALSE)
             \/ \E i \in 1..n : \E odd \in OddProfiles :
                   rnodes = DocOf(par, [j \in 1..n |-> IF j = i THEN odd ELSE PPlain], FALSE)
          /\ rstart \in {NoId, 1}
    /\ ropts \in OptionSets(BOOLEAN, {TRUE})
    /\ RenderStart

SpecRound == InitRound /\ [][NextRender]_vars

\* The rendered tree T: every node at or below a start.
InT == {x[1] : x \in Depths}

\* T as content and structure.
RECURSIVE ShapeOf(_)
ShapeOf(id) ==
    [content |-> NodeOf(id).content,
     children |-> [k \in 1..Len(NodeOf(id).children) |-> ShapeOf(NodeOf(id).children[k])]]

ExpectedShape ==
    IF rstart # NoId THEN <<ShapeOf(rstart)>>
    ELSE LET r == DocRoot(rnodes) IN
         [k \in 1..Len(rnodes[r].children) |-> ShapeOf(rnodes[r].children[k])]

\* The parsed forest as content and structure.
RECURSIVE ParsedShape(_)
ParsedShape(nodes) ==
    [k \in 1..Len(nodes) |->
        [content |-> nodes[k].content, children |-> ParsedShape(nodes[k].children)]]

Member(c, s) == \E k \in DOMAIN s : s[k] = c

\* The content begins with digits, then . or ), then white space.
StartsNumbered(c) ==
    \E d \in 1..Len(c) :
        /\ \A k \in 1..d : IsDigit(c[k])
        /\ Len(c) >= d + 2
        /\ c[d + 1] \in {".", ")"}
        /\ IsSpace(c[d + 2])

StartsQuoted(c) == c # <<>> /\ c[1] = ">"

\* A node the parser reads back as it was rendered.
RoundTripSafe(n) ==
    /\ ~n.checkbox
    /\ n.heading = 0
    /\ (~ropts.includeNotes \/ Trim(n.note) = <<>>)
    /\ n.content # <<>>
    /\ ~IsSpace(n.content[1]) /\ ~IsSpace(n.content[Len(n.content)])
    /\ ~Member("\n", n.content)
    /\ ~StartsNumbered(n.content)
    /\ ~StartsQuoted(n.content)

NoCheckedInT == \A id \in InT : ~NodeOf(id).checked

\* C7 as stated: for any tree T with no checked nodes, parsing the rendering
\* of T gives T back in content and structure.
C7_Original_RoundTrip ==
    (rpc = "parsed" /\ ~ropts.hasMaxDepth /\ NoCheckedInT) =>
        ParsedShape(rparsed) = ExpectedShape

\* C7 as amended: the round trip holds for a tree rendered without depth
\* limit whose nodes are neither checked nor checkbox items nor headings,
\* have no note that is rendered, and have a content that is not empty, is
\* one line without white space at either end and begins neither with a
\* numbered marker (digits, . or ), white space) nor with >.
C7_RoundTrip ==
    (rpc = "parsed" /\ ~ropts.hasMaxDepth /\ NoCheckedInT
        /\ \A id \in InT : RoundTripSafe(NodeOf(id)))
        => ParsedShape(rparsed) = ExpectedShape

\* A chain three deep, one of its contents beginning with "- ", rendered from
\* its top and parsed back.
C7_Witness ==
    /\ rpc = "parsed" /\ ~ropts.hasMaxDepth /\ NoCheckedInT
    /\ \A id \in InT : RoundTripSafe(NodeOf(id))
    /\ rstart = 1
    /\ \E x \in Depths : x[2] = 2
    /\ \E id \in InT : NodeOf(id).content[1] = "-"

----------------------------------------------------------------------------
(* The pending tree read directly (not through groupByLevel), and the      *)
(* history of the batch calls.                                             *)

\* Every pending node with the key of its parent (0: a root), its depth and
\* its 0-based position among its siblings.
RECURSIVE PendingSet(_, _, _)
PendingSet(nodes, parentKey, depth) ==
    UNION {{[key |-> nodes[k].key, parent |-> parentKey, depth |-> depth, pos |-> k - 1]}
              \cup PendingSet(nodes[k].children, nodes[k].key, depth + 1)
           : k \in 1..Len(nodes)}

Pending == PendingSet(tree, 0, 0)

PendingOf(key) == CHOOSE n \in Pending : n.key = key

\* The keys of the children of pending node parentKey, in sibling order.
RECURSIVE SiblingKeys(_, _)
SiblingKeys(nodes, parentKey) ==
    IF parentKey = 0 THEN [k \in 1..Len(nodes) |-> nodes[k].key]
    ELSE Concat([k \in 1..Len(nodes) |->
                    IF nodes[k].key = parentKey
                    THEN [c \in 1..Len(nodes[k].children) |-> nodes[k].children[c].key]
                    ELSE SiblingKeys(nodes[k].children, parentKey)])

\* Depth of the pending tree: the number of its levels.
TreeDepth == IF Pending = {} THEN 0
             ELSE 1 + (CHOOSE d \in {n.depth : n \in Pending} :
                          \A n \in Pending : n.depth <= d)

\* The places <<call, position>> of the insert entries issued for a key.
EntriesOf(key) ==
    {<<c, j>> \in (DOMAIN callLog) \X (1..MaxLines + 1) :
        j \in DOMAIN callLog[c].changes /\ callLog[c].changes[j].key = key}

\* The ids the remote returned for a key.
ReturnedIds(key) ==
    {callLog[x[1]].new_node_ids[x[2]] : x \in {y \in EntriesOf(key) : callLog[y[1]].status = "ok"}}

\* Every id any call returned, and the key of the pending node it was
\* returned for.
NewIds == UNION {{callLog[c].new_node_ids[j] : j \in DOMAIN callLog[c].new_node_ids}
                 : c \in DOMAIN callLog}

KeyOfId(id) == CHOOSE k \in {n.key : n \in Pending} : id \in ReturnedIds(k)

NodeById(nodes, id) == nodes[CHOOSE i \in DOMAIN nodes : nodes[i].id = id]

Done == pc = "returned" /\ ret.kind = "ok"

\* Requests sent whose answer the handler has not yet received.
Outstanding == Len(requests) + Len(responses)

----------------------------------------------------------------------------
(* C1: in insertTreeUnderParent every insert entry of a depth-0 pending    *)
(* node names the caller-supplied target parent, and every entry of a      *)
(* pending node at depth k >= 1 names exactly the id that the call of      *)
(* level k-1 returned for that node's parent in the pending tree.          *)
C1_ParentLinkage ==
    \A c \in DOMAIN callLog : \A j \in DOMAIN callLog[c].changes :
        LET e == callLog[c].changes[j]
            n == PendingOf(e.key)
        IN  /\ n.depth = callLog[c].level
            /\ IF n.depth = 0
               THEN e.parent_id = parentId
               ELSE /\ callLog[c - 1].status = "ok"
                    /\ ReturnedIds(n.parent) = {e.parent_id}
                    /\ \E x \in EntriesOf(n.parent) : x[1] = c - 1

\* A level-1 call whose entries hang under two different new parents, the
\* second of them not the first id of level 0.
C1_Witness ==
    /\ Done
    /\ \E c \in DOMAIN callLog :
          /\ callLog[c].level >= 1
          /\ \E j \in DOMAIN callLog[c].changes :
                callLog[c].changes[j].parent_id # callLog[c - 1].new_node_ids[1]

\* C2: inserted with position as_last_child, the level-0 nodes end after
\* every child the target parent already had, in input order.
C2_AppendedLast ==
    (Done /\ position = "as_last_child")
        => LET kids == NodeById(docNodes, parentId).children
               old == SelectSeq(kids, LAMBDA id : id \notin NewIds)
           IN  kids = old \o rootNodeIds

\* C3: one editDocument call per depth level, in increasing level order, the
\* call of a level issued only after the previous one was answered and the
\* answer received; never two remote calls outstanding.
C3_OneCallPerLevelSequential ==
    /\ Outstanding <= 1
    /\ \A c \in DOMAIN callLog :
          /\ callLog[c].level = c - 1
          /\ c < Len(callLog) => callLog[c].status = "ok"
          /\ callLog[c].changes # <<>>
    /\ Len(callLog) <= TreeDepth
    /\ (pc = "edit_wait" /\ callLog[Len(callLog)].status = "sent")
          => (requests = <<EditRequest(callLog[Len(callLog)].changes)>> /\ responses = <<>>)
    /\ Done => Len(callLog) = TreeDepth

\* A finished insertion of a tree three levels deep.
C3_Witness == Done /\ Len(callLog) = 3 /\ TreeDepth = 3

\* C4: after a finished insertion the new children of every parent stand in
\* the order of the corresponding pending siblings, and the entries under a
\* newly created parent carry the indices 0, 1, 2, ... in sibling order.
C4_SiblingOrder ==
    Done =>
        /\ \A i \in DOMAIN docNodes :
              LET nd == docNodes[i]
                  newKids == SelectSeq(nd.children, LAMBDA id : id \in NewIds)
                  keys == [k \in 1..Len(newKids) |-> KeyOfId(newKids[k])]
              IN  IF nd.id = parentId THEN keys = SiblingKeys(tree, 0)
                  ELSE IF nd.id \in NewIds
                       THEN /\ nd.children = newKids
                            /\ keys = SiblingKeys(tree, KeyOfId(nd.id))
                       ELSE newKids = <<>>
        /\ \A c \in DOMAIN callLog : \A j \in DOMAIN callLog[c].changes :
              callLog[c].level >= 1
                  => callLog[c].changes[j].index = PendingOf(callLog[c].changes[j].key).pos

\* A finished insertion in which a new parent got two children and the
\* target got two.
C4_Witness ==
    /\ Done
    /\ Len(tree) >= 2
    /\ \E i \in DOMAIN docNodes :
          docNodes[i].id \in NewIds /\ Len(docNodes[i].children) >= 2

\* C5: a finished insertion returns totalCreated = the number of pending
\* nodes and rootNodeIds = the ids of the level-0 call in root order; the
\* Buy milk example gives two level-0 inserts under the target at indices 0
\* and 1, one level-1 insert at index 0 under the id returned for "Buy milk",
\* and totalCreated = 3.
C5_ReturnValue ==
    Done =>
        /\ ret.totalCreated = Cardinality(Pending)
        /\ ret.rootNodeIds = callLog[1].new_node_ids
        /\ Len(ret.rootNodeIds) = Len(tree)
        /\ \A k \in DOMAIN tree : ReturnedIds(tree[k].key) = {ret.rootNodeIds[k]}
        /\ text = ExampleText =>
              /\ Len(callLog) = 2
              /\ [j \in 1..2 |-> <<callLog[1].changes[j].parent_id, callLog[1].changes[j].index>>]
                    = <<<<parentId, 0>>, <<parentId, 1>>>>
              /\ Len(callLog[1].changes) = 2
              /\ Len(callLog[2].changes) = 1
              /\ callLog[2].changes[1].parent_id = callLog[1].new_node_ids[1]
              /\ callLog[2].changes[1].index = 0
              /\ ret.totalCreated = 3

\* The Buy milk example finished.
C5_Witness == Done /\ text = ExampleText /\ Len(callLog) = 2

\* C6: when the call of level k fails, no call of a later level is issued,
\* the failure reaches the caller, no compensating call is issued, and the
\* nodes of the levels 0..k-1 stay in the document.
C6_FailureAborts ==
    /\ \A c \in DOMAIN callLog :
          /\ callLog[c].status = "failed" => c = Len(callLog)
          /\ \A j \in DOMAIN callLog[c].changes : callLog[c].changes[j].action = "insert"
    /\ (callLog # <<>> /\ callLog[Len(callLog)].status = "failed" /\ responses = <<>>)
          => /\ pc = "threw"
             /\ ret.kind = "threw"
             /\ requests = <<>>
             /\ \A c \in 1..(Len(callLog) - 1) : \A j \in DOMAIN callLog[c].changes :
                   LET id == callLog[c].new_node_ids[j] IN
                   /\ HasId(docNodes, id)
                   /\ \E i \in DOMAIN docNodes :
                         /\ docNodes[i].id = callLog[c].changes[j].parent_id
                         /\ \E k \in DOMAIN docNodes[i].children : docNodes[i].children[k] = id

\* The call of level 1 failed after level 0 had been inserted.
C6_Witness ==
    /\ pc = "threw"
    /\ Len(callLog) >= 2
    /\ callLog[Len(callLog)].status = "failed"
    /\ callLog[1].status = "ok"

----------------------------------------------------------------------------
(* parseMarkdownBullets and groupByLevel applied to a text.                *)

\* parseMarkdownBullets(text): both loops, then buildTree.
ParseMarkdownBullets ==
    /\ UNCHANGED <<insertVars, renderVars, toolVars, navVars, inboxVars>>
    /\ ppc = "input"
    /\ LET lines == Split(ptext, "\n")
           unit == DetectIndentUnit(lines, 4)
           flat == FlatNodes(lines, unit)
       IN  /\ punit' = unit
           /\ pflat' = flat
           /\ ptree' = buildTree(flat)
    /\ ppc' = "parsed"
    /\ UNCHANGED <<ptext, plevels>>

\* groupByLevel(parsedTree), the first statement of insertTreeUnderParent.
GroupByLevel ==
    /\ UNCHANGED <<insertVars, renderVars, toolVars, navVars, inboxVars>>
    /\ ppc = "parsed"
    /\ plevels' = groupByLevel(ptree)
    /\ ppc' = "grouped"
    /\ UNCHANGED <<ptext, punit, pflat, ptree>>

NextParse ==
    \/ ParseMarkdownBullets
    \/ GroupByLevel

\* Lines of a text in which every indentation is tried.
MaxPLines == 3

\* Leading white space of a line: spaces, tabs, both.
Indents ==
    {Repeat(<<" ">>, k) : k \in {0, 1, 2, 3, 4, 6, 8}}
    \cup {<<"\t">>, <<"\t", "\t">>, <<" ", "\t">>}

\* A line of the indentation texts: an indented "x", or a blank line.
IndentLines == {ind \o <<"x">> : ind \in Indents} \cup {<<>>, <<" ", " ">>}

JoinLines(ls) == Concat([k \in 1..Len(ls) |-> IF k = 1 THEN ls[k] ELSE <<"\n">> \o ls[k]])

IndentTexts == UNION {{JoinLines(ls) : ls \in [1..n -> IndentLines]} : n \in 1..MaxPLines}

\* Texts of "- " bullets indented by 4 spaces per level.
LevelTexts == UNION {{TextOf(lv) : lv \in [1..n -> 0..MaxLevel]} : n \in 0..MaxLines}

\* Line bodies with no, one or several markers, with and without white
\* space after them, with and without content.
MarkerBodies ==
    {<<"x">>, <<"-", " ", "x">>, <<"*", " ", "x">>, <<"o", " ", "x">>, <<"-", "\t", "x">>,
     <<"-", " ", " ", "x">>, <<"1", ".", " ", "x">>, <<"1", "2", ")", " ", "x">>,
     <<">", " ", "x">>, <<">", "x">>, <<">", ">", "x">>,
     <<"-", " ", "1", ".", " ", "x">>, <<"-", " ", ">", " ", "x">>, <<"-", " ", ">", "x">>,
     <<"1", ".", " ", ">", " ", "x">>, <<"-", " ", "1", ".", " ", ">", "x">>,
     <<"-", " ", "-", " ", "x">>, <<">", " ", "-", " ", "x">>, <<"1", ".", " ", "-", " ", "x">>,
     <<"1", ".", " ", "2", ".", " ", "x">>, <<">", " ", "1", ".", " ", "x">>,
     <<"-", "x">>, <<"1", ".", "x">>, <<"1", " ", "x">>,
     <<"-", " ">>, <<"-">>, <<"-", " ", " ">>, <<"*">>, <<"o", " ">>,
     <<">">>, <<">", " ">>, <<"-", " ", ">">>, <<"1", ".">>, <<"1", ".", " ">>,
     <<"-", " ", "-">>, <<"-", " ", "1", ".">>}

\* A marker line alone, under a parent line, or above a child line.
MarkerTexts ==
    UNION {{body, <<" ", " ">> \o body,
            JoinLines(<<<<"a">>, <<" ", " ">> \o body>>),
            JoinLines(<<body, <<" ", " ", "-", " ", "z">>>>)} : body \in MarkerBodies}

ParseTexts == IndentTexts \cup LevelTexts \cup MarkerTexts

InitParse ==
    /\ InsertIdle
    /\ RenderIdle
    /\ ToolIdle
    /\ NavIdle
    /\ InboxIdle
    /\ ppc = "input"
    /\ ptext \in ParseTexts
    /\ punit = 0
    /\ pflat = <<>>
    /\ ptree = <<>>
    /\ plevels = <<>>

SpecParse == InitParse /\ [][NextParse]_vars

----------------------------------------------------------------------------
(* The parser's result read against the lines of the text.                 *)

Parsed == ppc \in {"parsed", "grouped"}

\* The lines that are not blank, in order.
NonBlank == SelectSeq(Split(ptext, "\n"), LAMBDA l : Trim(l) # <<>>)

PositiveIndents == {getLeadingSpaces(NonBlank[k]) : k \in DOMAIN NonBlank} \ {0}

SmallestIndent == CHOOSE m \in PositiveIndents : \A q \in PositiveIndents : m <= q

\* C16: the indentation unit is the smallest positive leading-whitespace
\* count over the non-blank lines, 4 only when no line is indented, and the
\* level of a line is floor(leadingSpaces / unit).
C16_SmallestIndentUnit ==
    Parsed =>
        LET unit == IF PositiveIndents = {} THEN 4 ELSE SmallestIndent
        IN  /\ punit = unit
            /\ Len(pflat) = Len(NonBlank) =>
                  \A k \in DOMAIN pflat : pflat[k].level = getLeadingSpaces(NonBlank[k]) \div unit

\* The contents of the flat nodes, in order.
FlatContents == [k \in DOMAIN pflat |-> pflat[k].content]

IsSpaces(p) == \A k \in DOMAIN p : IsSpace(p[k])

\* p is a bullet marker with the white space after it: [-*o] and one or
\* more white space characters.
BulletMark(p) == Len(p) >= 2 /\ IsBulletChar(p[1]) /\ IsSpaces(Tail(p))

\* p is a numbered marker with the white space after it: digits, . or ),
\* one or more white space characters.
NumberMark(p) ==
    \E d \in 1..Len(p) :
        /\ \A k \in 1..d : IsDigit(p[k])
        /\ Len(p) >= d + 2
        /\ p[d + 1] \in {".", ")"}
        /\ IsSpaces(SubSeq(p, d + 2, Len(p)))

\* p is a quote marker: > and any white space after it, none needed.
QuoteMark(p) == Len(p) >= 1 /\ p[1] = ">" /\ IsSpaces(Tail(p))

From(s, i) == SubSeq(s, i + 1, Len(s))

BeginsBullet(s) == \E n \in 1..Len(s) : BulletMark(SubSeq(s, 1, n))
BeginsNumber(s) == \E n \in 1..Len(s) : NumberMark(SubSeq(s, 1, n))
BeginsQuote(s) == \E n \in 1..Len(s) : QuoteMark(SubSeq(s, 1, n))

\* The first character after a removed marker is no white space.
Tight(s, i) == i = Len(s) \/ ~IsSpace(s[i + 1])

\* C17 as stated: at most one marker is removed, and only one followed by
\* white space.
OneMarker(s, c) ==
    \E i \in 0..Len(s) :
        /\ c = From(s, i)
        /\ \/ i = 0 /\ ~BeginsBullet(s) /\ ~BeginsNumber(s) /\ ~(BeginsQuote(s) /\ Len(s) >= 2 /\ IsSpace(s[2]))
           \/ /\ i >= 2 /\ Tight(s, i)
              /\ \/ BulletMark(SubSeq(s, 1, i))
                 \/ NumberMark(SubSeq(s, 1, i))
                 \/ QuoteMark(SubSeq(s, 1, i))

\* C17 as amended: a bullet marker, then a numbered marker, then a quote
\* marker are removed from the front, each at most once and in this order,
\* each with all the white space after it; the quote marker needs none.
MarkerChain(s, c) ==
    \E i, j, k \in 0..Len(s) :
        /\ i <= j /\ j <= k
        /\ c = From(s, k)
        /\ IF i = 0 THEN ~BeginsBullet(s)
           ELSE BulletMark(SubSeq(s, 1, i)) /\ Tight(s, i)
        /\ IF j = i THEN ~BeginsNumber(From(s, i))
           ELSE NumberMark(SubSeq(s, i + 1, j)) /\ Tight(s, j)
        /\ IF k = j THEN ~BeginsQuote(From(s, j))
           ELSE QuoteMark(SubSeq(s, j + 1, k)) /\ Tight(s, k)

Suffixes(s) == {From(s, k) : k \in 0..Len(s)}

\* What is left of each non-blank line under a rule, the empty ones dropped.
OneMarkerContents ==
    SelectSeq([k \in DOMAIN NonBlank |->
                  CHOOSE c \in Suffixes(Trim(NonBlank[k])) : OneMarker(Trim(NonBlank[k]), c)],
              LAMBDA c : c # <<>>)

MarkerChainContents ==
    SelectSeq([k \in DOMAIN NonBlank |->
                  CHOOSE c \in Suffixes(Trim(NonBlank[k])) : MarkerChain(Trim(NonBlank[k]), c)],
              LAMBDA c : c # <<>>)

\* C17 as stated: the content of a line is the trimmed line less at most one
\* leading marker, removed only when white space follows it.
C17_Original_OneMarker ==
    Parsed => FlatContents = OneMarkerContents

\* C17 as amended: the content of a line is the trimmed line less a bullet
\* marker, then a numbered marker, then a quote marker, each removed when
\* present; the rule leaves exactly one content for every line.
C17_MarkerChain ==
    Parsed =>
        /\ \A k \in DOMAIN NonBlank :
              Cardinality({c \in Suffixes(Trim(NonBlank[k])) : MarkerChain(Trim(NonBlank[k]), c)}) = 1
        /\ FlatContents = MarkerChainContents

\* "- 1. >x" has been parsed to "x": three markers removed, the last one
\* with no white space after it.
C17_Witness ==
    /\ Parsed
    /\ ptext = <<"-", " ", "1", ".", " ", ">", "x">>
    /\ FlatContents = <<<<"x">>>>

\* A trimmed line that is a marker and nothing else.
BareMarker(t) ==
    \/ Len(t) = 1 /\ (IsBulletChar(t[1]) \/ t[1] = ">")
    \/ Len(t) >= 2 /\ t[Len(t)] \in {".", ")"} /\ \A k \in 1..(Len(t) - 1) : IsDigit(t[k])

\* C18: no node is made for a blank line nor for a line that is empty once
\* its marker is removed ("- ", "-" and white space), and blank lines leave
\* the parents of the lines after them as they are.
C18_NoNodeForEmptyLines ==
    Parsed =>
        /\ Len(pflat) <= Cardinality({k \in DOMAIN NonBlank : ~BareMarker(Trim(NonBlank[k]))})
        /\ ptree = parseMarkdownBullets(JoinLines(NonBlank))

\* The tree the parser returned: every node with the key of its parent, its
\* depth and its place among its siblings.
ParsedSet == PendingSet(ptree, 0, 0)

RECURSIVE PreOrder(_)
PreOrder(nodes) ==
    Concat([k \in 1..Len(nodes) |-> <<nodes[k]>> \o PreOrder(nodes[k].children)])

\* The nearest kept line before line i with a strictly smaller level (0: none).
NearestSmaller(i) ==
    LET before == {j \in 1..(i - 1) : pflat[j].level < pflat[i].level}
    IN  IF before = {} THEN 0 ELSE CHOOSE j \in before : \A q \in before : q <= j

\* C19: the parent of a node is the nearest preceding kept line of strictly
\* smaller level, a root when there is none; a line two or more levels
\* deeper than the line before it is a child of that line; the pre-order walk
\* of the tree is the kept lines in input order.
C19_NearestSmallerParent ==
    Parsed =>
        /\ [k \in DOMAIN PreOrder(ptree) |-> PreOrder(ptree)[k].key] = [k \in DOMAIN pflat |-> k]
        /\ [k \in DOMAIN PreOrder(ptree) |-> PreOrder(ptree)[k].content] = FlatContents
        /\ \A n \in ParsedSet : n.parent = NearestSmaller(n.key)
        /\ \A n \in ParsedSet :
              (n.key >= 2 /\ pflat[n.key].level >= pflat[n.key - 1].level + 2) =>
                  /\ n.parent = n.key - 1
                  /\ \E m \in ParsedSet : m.key = n.key - 1 /\ n.depth = m.depth + 1

\* A line two levels deeper than the one before it, followed by a line of a
\* level between the two.
C19_Witness ==
    /\ Parsed
    /\ \E i \in 2..(Len(pflat) - 1) :
          /\ pflat[i].level >= pflat[i - 1].level + 2
          /\ pflat[i + 1].level < pflat[i].level
          /\ pflat[i + 1].level > pflat[i - 1].level

Grouped == ppc = "grouped"

KeysOf(level) == [j \in DOMAIN level |-> level[j].key]

\* 1-based place of key in a level.
PlaceIn(level, key) == CHOOSE j \in DOMAIN level : level[j].key = key

\* C20: groupByLevel ends; level 0 is the roots in order, level k is all
\* nodes of depth k from left to right, every node is in exactly one level,
\* localIndex is the place in the level and parentLevelIndex the place of the
\* parent in the level before (-1 at level 0).
C20_LevelsAreDepths ==
    Grouped =>
        /\ Len(plevels) = IF ParsedSet = {} THEN 1
                          ELSE 1 + (CHOOSE d \in {n.depth : n \in ParsedSet} :
                                       \A n \in ParsedSet : n.depth <= d)
        /\ KeysOf(plevels[1]) = [k \in DOMAIN ptree |-> ptree[k].key]
        /\ \A k \in DOMAIN plevels :
              LET level == plevels[k] IN
              /\ {level[j].key : j \in DOMAIN level} = {n.key : n \in {m \in ParsedSet : m.depth = k - 1}}
              /\ \A i, j \in DOMAIN level : i < j => level[i].key < level[j].key
              /\ \A j \in DOMAIN level :
                    /\ level[j].localIndex = j - 1
                    /\ level[j].content = pflat[level[j].key].content
                    /\ level[j].parentLevelIndex =
                          IF k = 1 THEN -1
                          ELSE PlaceIn(plevels[k - 1],
                                       (CHOOSE n \in ParsedSet : n.key = level[j].key).parent) - 1

\* Three levels, and a node whose parent is not the first of its level and
\* stands elsewhere than the node does in its own.
C20_Witness ==
    /\ Grouped
    /\ Len(plevels) >= 3
    /\ \E k \in DOMAIN plevels : \E j \in DOMAIN plevels[k] :
          /\ plevels[k][j].parentLevelIndex >= 1
          /\ plevels[k][j].parentLevelIndex # plevels[k][j].localIndex

----------------------------------------------------------------------------
(* dynalist-client and tools: findRootNodeId, findNodeParent and           *)
(* getAncestors applied to a node list.                                    *)

\* nodes.find(n => n.id === id): the first node of the list with this id.
FindNode(nodes, id) == nodes[CHOOSE i \in DOMAIN nodes : nodes[i].id = id /\ \A j \in 1..(i - 1) : nodes[j].id # id]

\* A plausible slip: the loop runs once more than levels.
LoopGoesOn_OneMore(i, nLevels) == i <= nLevels

\* i < levels
LoopGoesOn(i, nLevels) == i < nLevels

\* The for loop of getAncestors.
RECURSIVE AncestorLoop(_, _, _, _, _)
AncestorLoop(nodes, currentId, i, nLevels, ancestors) ==
    IF ~LoopGoesOn(i, nLevels) THEN ancestors
    ELSE IF ~HasParent(nodes, currentId) THEN ancestors
    ELSE LET parentInfo == findNodeParent(nodes, currentId) IN
         IF ~HasId(nodes, parentInfo.parentId) THEN ancestors
         ELSE LET parentNode == FindNode(nodes, parentInfo.parentId)
              IN  AncestorLoop(nodes, parentNode.id, i + 1, nLevels,
                               Append(ancestors, [id |-> parentNode.id, content |-> parentNode.content]))

getAncestors(nodes, nodeId, nLevels) ==
    IF nLevels <= 0 THEN <<>> ELSE AncestorLoop(nodes, nodeId, 0, nLevels, <<>>)

FindRootNodeId ==
    /\ UNCHANGED <<insertVars, renderVars, toolVars, parseVars, inboxVars>>
    /\ navPc = "input"
    /\ navRes' = [fn |-> "findRootNodeId", value |-> findRootNodeId(navNodes)]
    /\ navPc' = "done"
    /\ UNCHANGED <<navNodes, navId, navLevels>>

FindNodeParent ==
    /\ UNCHANGED <<insertVars, renderVars, toolVars, parseVars, inboxVars>>
    /\ navPc = "input"
    /\ navRes' = [fn |-> "findNodeParent",
                  value |-> IF HasParent(navNodes, navId)
                            THEN [found |-> TRUE,
                                  parentId |-> findNodeParent(navNodes, navId).parentId,
                                  index |-> findNodeParent(navNodes, navId).index]
                            ELSE [found |-> FALSE, parentId |-> NoId, index |-> -1]]
    /\ navPc' = "done"
    /\ UNCHANGED <<navNodes, navId, navLevels>>

GetAncestors ==
    /\ UNCHANGED <<insertVars, renderVars, toolVars, parseVars, inboxVars>>
    /\ navPc = "input"
    /\ navRes' = [fn |-> "getAncestors", value |-> getAncestors(navNodes, navId, navLevels)]
    /\ navPc' = "done"
    /\ UNCHANGED <<navNodes, navId, navLevels>>

NextNav ==
    \/ FindRootNodeId
    \/ FindNodeParent
    \/ GetAncestors

\* Nodes of a node list handed to the three functions.
MaxNNodes == 3
\* Largest levels argument of getAncestors.
MaxAncLevels == 3

LetterDoc(par, reversed) ==
    DocOf(par, [i \in 1..Len(par) |-> Profile(Letter(i), <<>>, FALSE, FALSE, 0)], reversed)

\* Forests, cycles and self references in either list order, and graphs with
\* one reference more: a node two nodes list, a node listed twice.
NavDocs ==
    UNION {{LetterDoc(par, rev) : par \in GraphParents(n), rev \in BOOLEAN} : n \in 0..MaxNNodes}
    \cup UNION {{WithEdge(LetterDoc(par, rev), i, j) :
                    par \in GraphParents(n), rev \in BOOLEAN, i \in 1..n, j \in 1..n} :
                   n \in 1..(MaxNNodes - 1)}
    \cup UNION {{WithEdge(LetterDoc(par, rev), i, j) :
                    par \in TreeParents(n), rev \in BOOLEAN, i \in 1..n, j \in 1..n} :
                   n \in 1..MaxNNodes}

InitNav ==
    /\ InsertIdle
    /\ RenderIdle
    /\ ToolIdle
    /\ ParseIdle
    /\ InboxIdle
    /\ navPc = "input"
    /\ navNodes \in NavDocs
    /\ navId \in 1..(Len(navNodes) + 1)
    /\ navLevels \in (-1)..MaxAncLevels
    /\ navRes = [fn |-> "none", value |-> <<>>]

SpecNav == InitNav /\ [][NextNav]_vars

\* The node list read directly.
NavIds == {navNodes[i].id : i \in DOMAIN navNodes}

\* The places in the list of the nodes that list id as a child.
Listers(id) == {i \in DOMAIN navNodes : \E k \in DOMAIN navNodes[i].children : navNodes[i].children[k] = id}

Unlisted == {i \in DOMAIN navNodes : Listers(navNodes[i].id) = {}}

Least(S) == CHOOSE m \in S : \A q \in S : m <= q

\* C21: findRootNodeId returns the id of the first node in list order that
\* no node lists as a child, and the id of the first node of the list when
\* every node is listed; on [{1,[2,3]},{2,[]},{3,[]}] it returns 1.
C21_FirstUnlistedNode ==
    (navPc = "done" /\ navRes.fn = "findRootNodeId") =>
        /\ Unlisted # {} => navRes.value = navNodes[Least(Unlisted)].id
        /\ (Unlisted = {} /\ navNodes # <<>>) => navRes.value = navNodes[1].id
        /\ navNodes = LetterDoc(<<0, 1, 1>>, FALSE) => navRes.value = 1

\* Every node is listed as a child, the list has several nodes and the first
\* of them, not node 1, has been returned.
C21_Witness ==
    /\ navPc = "done" /\ navRes.fn = "findRootNodeId"
    /\ Unlisted = {} /\ Len(navNodes) >= 2
    /\ navRes.value = navNodes[1].id /\ navRes.value # 1

\* C22: findNodeParent returns the first node in list order whose children
\* hold the id, with the first position of the id there, and not-found
\* exactly when no node lists the id.
C22_FirstListerFirstIndex ==
    (navPc = "done" /\ navRes.fn = "findNodeParent") =>
        LET r == navRes.value IN
        /\ r.found <=> Listers(navId) # {}
        /\ r.found =>
              LET kids == navNodes[Least(Listers(navId))].children IN
              /\ r.parentId = navNodes[Least(Listers(navId))].id
              /\ r.index + 1 \in DOMAIN kids
              /\ kids[r.index + 1] = navId
              /\ \A k \in 1..r.index : kids[k] # navId

\* An id two nodes list, found as a second or later child of the first of
\* them.
C22_Witness ==
    /\ navPc = "done" /\ navRes.fn = "findNodeParent"
    /\ Cardinality(Listers(navId)) >= 2
    /\ navRes.value.found /\ navRes.value.index >= 1

\* C23: getAncestors returns at most levels entries, the parent of the id
\* first and then the parent of each entry; fewer than levels only when the
\* node reached last has no parent; nothing for levels <= 0; it returns on
\* every node list.
C23_AncestorChain ==
    (navPc = "done" /\ navRes.fn = "getAncestors") =>
        LET a == navRes.value
            reached(i) == IF i = 0 THEN navId ELSE a[i].id
        IN  /\ navLevels <= 0 => a = <<>>
            /\ navLevels > 0 => Len(a) <= navLevels
            /\ \A i \in DOMAIN a :
                  /\ Listers(reached(i - 1)) # {}
                  /\ a[i].id = navNodes[Least(Listers(reached(i - 1)))].id
                  /\ a[i].content = navNodes[Least(Listers(reached(i - 1)))].content
            /\ (navLevels > 0 /\ Len(a) < navLevels) => Listers(reached(Len(a))) = {}

\* A cycle walked: as many entries as levels, one node met twice.
C23_Witness ==
    /\ navPc = "done" /\ navRes.fn = "getAncestors"
    /\ navLevels >= 2 /\ Len(navRes.value) = navLevels
    /\ \E i, j \in DOMAIN navRes.value : i < j /\ navRes.value[i].id = navRes.value[j].id

----------------------------------------------------------------------------
(* The renderer on trees in which one node shows a mix of checkbox,        *)
(* checked and heading, or a note, beside plain nodes.                     *)

MaxHeading == 3

BulletProfiles ==
    {Profile(<<"a">>, <<>>, cb, ck, h) : cb \in BOOLEAN, ck \in BOOLEAN, h \in 0..MaxHeading}

NoteProfiles ==
    {PNoted,
     Profile(<<>>, <<"n">>, FALSE, FALSE, 0),
     Profile(<<"a">>, <<" ", "\n", " ">>, FALSE, FALSE, 0),
     Profile(<<"a">>, <<"n">>, TRUE, FALSE, 1)}

InitFormat ==
    /\ InsertIdle
    /\ ToolIdle
    /\ ParseIdle
    /\ NavIdle
    /\ InboxIdle
    /\ \E n \in 1..MaxRNodes : \E par \in TreeParents(n) :
       \E i \in 1..n : \E odd \in BulletProfiles \cup NoteProfiles :
          /\ rnodes = DocOf(par, [j \in 1..n |-> IF j = i THEN odd ELSE PPlain], FALSE)
          /\ rstart \in {NoId, 1}
    /\ ropts \in OptionSets(BOOLEAN, BOOLEAN)
    /\ RenderStart

SpecFormat == InitFormat /\ [][NextRenderOnly]_vars

----------------------------------------------------------------------------
(* Properties of the rendering: order, indentation, prefixes, notes.       *)

\* The ids the top-level renderNode calls start from, in call order.
StartSeq ==
    IF rstart # NoId THEN <<rstart>>
    ELSE LET r == DocRoot(rnodes) IN IF r = 0 THEN <<>> ELSE rnodes[r].children

\* In a tree: the ids at and below id, a node before its children, the
\* children in stored order.
RECURSIVE PreOrderFrom(_)
PreOrderFrom(id) ==
    <<id>> \o Concat([k \in 1..Len(NodeOf(id).children) |->
                         PreOrderFrom(NodeOf(id).children[k])])

PreOrderIds == Concat([k \in 1..Len(StartSeq) |-> PreOrderFrom(StartSeq[k])])

\* renderNode goes past its two early returns at id.
Visited(id) ==
    /\ ropts.includeChecked \/ id \notin Hidden
    /\ ropts.hasMaxDepth => DepthOfId(id) <= ropts.maxDepth

\* A node that gets a line of its own.
HasOwnLine(id) ==
    /\ Visited(id)
    /\ NodeOf(id).content # <<>> \/ NodeOf(id).children # <<>>

NodeLines == SelectSeq(rout, LAMBDA l : l.kind = "node")

RECURSIVE LeadingBlanks(_)
LeadingBlanks(t) ==
    IF t # <<>> /\ Head(t) = " " THEN 1 + LeadingBlanks(Tail(t)) ELSE 0

RECURSIVE StripBlanks(_)
StripBlanks(t) == IF t # <<>> /\ Head(t) = " " THEN StripBlanks(Tail(t)) ELSE t

(* C24: the node lines of the rendering are, in order, the lines of the    *)
(* nodes that get a line, taken in the pre-order of the tree that follows  *)
(* each node's children in stored order; every node line starts with four  *)
(* spaces per level of depth of its node.                                  *)
C24_PreOrderAndIndent ==
    Rendered =>
        /\ [k \in 1..Len(NodeLines) |-> NodeLines[k].node] = SelectSeq(PreOrderIds, HasOwnLine)
        /\ \A k \in DOMAIN NodeLines :
              LeadingBlanks(NodeLines[k].text) = 4 * DepthOfId(NodeLines[k].node)

\* A rendering with a node line below depth 0 and two siblings that both
\* have a line.
C24_Witness ==
    /\ Rendered
    /\ \E id \in InT : \E a, b \in DOMAIN NodeOf(id).children :
          /\ a < b
          /\ HasLine(NodeLines, NodeOf(id).children[a])
          /\ HasLine(NodeLines, NodeOf(id).children[b])
    /\ \E k \in DOMAIN NodeLines : DepthOfId(NodeLines[k].node) > 0

\* In a tree: the ids at and below id that have a checked checkbox item on
\* the way from the start to them, themselves included.
RECURSIVE HiddenBoxBelow(_, _)
HiddenBoxBelow(id, above) ==
    LET h == above \/ (NodeOf(id).checkbox /\ NodeOf(id).checked) IN
    (IF h THEN {id} ELSE {}) \cup UNION {HiddenBoxBelow(k, h) : k \in KidSet(id)}

HiddenBox == UNION {HiddenBoxBelow(id, FALSE) : id \in Starts}

(* C25 as stated: with includeChecked = false only the checked checkbox    *)
(* items and what is below them are left out; the lines of every other     *)
(* node, a node with checked = true and checkbox = false among them, are   *)
(* those of the rendering with includeChecked = true.                      *)
C25_OnlyCheckedBoxesOmitted ==
    (Rendered /\ ~ropts.includeChecked) =>
        rout = SelectSeq(RenderWith([ropts EXCEPT !.includeChecked = TRUE]),
                         LAMBDA l : l.node \notin HiddenBox)

\* The prefix by priority: checkbox, then heading, then plain.
BulletPrefix(n) ==
    CASE n.checkbox /\ n.checked -> <<"-", " ", "[", "x", "]", " ">>
      [] n.checkbox /\ ~n.checked -> <<"-", " ", "[", " ", "]", " ">>
      [] ~n.checkbox /\ n.heading > 0 -> [i \in 1..n.heading |-> "#"] \o <<" ">>
      [] OTHER -> <<"-", " ">>

(* C26: after its indentation every node line is the prefix of its node,   *)
(* the content and a line end; the prefix is "- [x] " or "- [ ] " for a    *)
(* checkbox item whatever its heading, else heading-many "#" and a space   *)
(* for a heading above 0, else "- ".                                       *)
C26_BulletPrefixPriority ==
    Rendered =>
        \A k \in DOMAIN NodeLines :
            LET n == NodeOf(NodeLines[k].node) IN
            StripBlanks(NodeLines[k].text) = BulletPrefix(n) \o n.content \o <<"\n">>

\* Lines of a checkbox item with a heading, and of a heading that is no
\* checkbox item.
C26_Witness ==
    /\ Rendered
    /\ \E k \in DOMAIN NodeLines :
          NodeOf(NodeLines[k].node).checkbox /\ NodeOf(NodeLines[k].node).heading > 0

\* The sub-bullets a note stands for.
NoteBullets(id) ==
    LET ls == SelectSeq(Split(NodeOf(id).note, "\n"),
                        LAMBDA l : \E k \in DOMAIN l : ~IsSpace(l[k]))
    IN  [k \in 1..Len(ls) |->
            [j \in 1..(4 * (DepthOfId(id) + 1)) |-> " "] \o <<"-", " ">> \o Trim(ls[k])
                \o <<"\n">>]

NoteTexts(id) ==
    LET ls == SelectSeq(rout, LAMBDA l : l.node = id /\ l.kind = "note")
    IN  [k \in 1..Len(ls) |-> ls[k].text]

Descendants(id) == {x[1] : x \in DepthsBelow(id, 0)} \ {id}

(* C27: with includeNotes = true the note lines of every node the renderer *)
(* does not skip are the non-blank lines of its note, in order, each as    *)
(* "- " and the trimmed line, one level deeper than the node; they come    *)
(* after the node's own line and before every line of the nodes below it.  *)
(* With includeNotes = false the rendering has no note line.               *)
C27_NoteSubBullets ==
    Rendered =>
        /\ ropts.includeNotes =>
              \A id \in InT :
                  /\ Visited(id) => NoteTexts(id) = NoteBullets(id)
                  /\ ~Visited(id) => NoteTexts(id) = <<>>
                  /\ \A k \in DOMAIN rout :
                        (rout[k].node = id /\ rout[k].kind = "note") =>
                            /\ \A j \in DOMAIN rout :
                                  (rout[j].node = id /\ rout[j].kind = "node") => j < k
                            /\ \A j \in DOMAIN rout :
                                  rout[j].node \in Descendants(id) => k < j
        /\ ~ropts.includeNotes => \A k \in DOMAIN rout : rout[k].kind # "note"

\* A node with a line of its own, two note lines out of a note with a blank
\* line, and a child with a line.
C27_Witness ==
    /\ Rendered
    /\ ropts.includeNotes
    /\ \E id \in InT :
          /\ Len(NoteTexts(id)) = 2
          /\ Len(Split(NodeOf(id).note, "\n")) > 2
          /\ \E k \in DOMAIN NodeLines : NodeLines[k].node = id
          /\ \E c \in KidSet(id) : HasLine(rout, c)

----------------------------------------------------------------------------
(* C28: move_node_relative and a reference without a parent.               *)

\* C28: once move_node_relative with position 'after' or 'before' has
\* fetched a document in which no node lists the reference (the reference is
\* the root or is not there), it has returned an error and editDocument was
\* never called; with 'as_first_child' (resp. 'as_last_child') the fetch is
\* followed by one editDocument call of one move entry: the source, the
\* reference as parent, index 0 (resp. -1).
C28_ParentlessReference ==
    (MoveCall /\ Fetched) =>
        IF targs.position \in {"after", "before"}
        THEN (\A i \in DOMAIN tread : \A k \in DOMAIN tread[i].children :
                    tread[i].children[k] # targs.refNode)
                => /\ EditCalls = <<>>
                   /\ tpc = "returned" /\ tret.kind = "error"
        ELSE /\ Len(EditCalls) = 1
             /\ EditCalls[1].changes =
                   <<[action |-> "move", node_id |-> targs.node, parent_id |-> targs.refNode,
                      index |-> IF targs.position = "as_first_child" THEN 0 ELSE -1]>>

\* 'after' or 'before' the root of the fetched document: the error is back.
C28_Witness ==
    /\ MoveCall /\ Fetched
    /\ targs.position \in {"after", "before"}
    /\ HasId(tread, targs.node) /\ targs.node # targs.refNode
    /\ HasId(tread, targs.refNode) /\ ~HasParent(tread, targs.refNode)
    /\ tret = ErrorResult("Could not find parent of reference node")

----------------------------------------------------------------------------
(* tools: the handler of edit_node.                                        *)

FieldNames == {"content", "note", "checked", "checkbox", "heading", "color"}

FieldValues(f) ==
    CASE f = "content" -> {<<>>, <<"z">>}
      [] f = "note" -> {<<>>, <<"m">>}
      [] f \in {"checked", "checkbox"} -> BOOLEAN
      [] f = "heading" -> 0..MaxHeading
      [] OTHER -> {0, 6}

\* false, 0 and "" of JavaScript.
Falsy(f, v) ==
    CASE f \in {"content", "note"} -> v = <<>>
      [] f \in {"checked", "checkbox"} -> v = FALSE
      [] OTHER -> v = 0

\* A plausible slip: `if (content) change.content = content`.
Supplied_Truthy(fields, f) == f \in DOMAIN fields /\ ~Falsy(f, fields[f])

\* content !== undefined
Supplied(fields, f) == f \in DOMAIN fields

\* const change = { action: "edit", node_id }; then the six tests.
EditChange(nodeId, fields) ==
    LET keys == {"action", "node_id"} \cup {f \in FieldNames : Supplied(fields, f)}
    IN  [k \in keys |-> IF k = "action" THEN "edit"
                        ELSE IF k = "node_id" THEN nodeId
                        ELSE fields[k]]

\* edit_node up to its editDocument.
EditStart ==
    /\ UNCHANGED <<insertVars, renderVars, parseVars, navVars, inboxVars>>
    /\ tpc = "start"
    /\ targs.tool = "edit_node"
    /\ IF targs.doc = NoId THEN ReturnError("Either 'url' or 'file_id' must be provided")
       ELSE CallEdit(<<EditChange(targs.node, targs.fields)>>)
    /\ UNCHANGED <<targs, tdoc, tread>>

\* One edit entry applied: the fields the entry holds replace those of the
\* node, the others stay.
ApplyEdit(nodes, e) ==
    [i \in DOMAIN nodes |->
        IF nodes[i].id = e.node_id
        THEN [f \in DOMAIN nodes[i] |-> IF f \in DOMAIN e THEN e[f] ELSE nodes[i][f]]
        ELSE nodes[i]]

RECURSIVE ApplyEditEntries(_, _)
ApplyEditEntries(nodes, changes) ==
    IF changes = <<>> THEN nodes
    ELSE ApplyEditEntries(ApplyEdit(nodes, Head(changes)), Tail(changes))

\* The remote applies a /doc/edit batch of edit entries.
EditRemoteEdit ==
    /\ UNCHANGED <<insertVars, renderVars, parseVars, navVars, inboxVars>>
    /\ tnet.dir = "req" /\ tnet.op = "edit"
    /\ tdoc' = ApplyEditEntries(tdoc, tnet.changes)
    /\ tnet' = [NoCall EXCEPT !.dir = "resp", !.op = "edit"]
    /\ UNCHANGED <<tpc, targs, tlog, tread, tret>>

NextEdit ==
    \/ EditStart
    \/ EditRemoteEdit
    \/ ToolRemoteReject
    \/ ToolEditReturn
    \/ ToolThrow

\* A root and a child that shows every field set.
EditDoc ==
    DocOf(<<0, 1>>, <<PPlain, Profile(<<"a">>, <<"n">>, TRUE, TRUE, 2)>>, FALSE)

\* Any subset of the six fields, each with any of its values.
FieldSets ==
    {[f \in S |-> full[f]] :
        full \in [content : FieldValues("content"), note : FieldValues("note"),
                  checked : FieldValues("checked"), checkbox : FieldValues("checkbox"),
                  heading : FieldValues("heading"), color : FieldValues("color")],
        S \in SUBSET FieldNames}

InitEdit ==
    /\ ToolStart0
    /\ tdoc = EditDoc
    /\ \E d \in {NoId, 1}, s \in NodeArgs(EditDoc) \ {NoId}, fs \in FieldSets :
          targs = [NoArgs EXCEPT !.tool = "edit_node", !.doc = d, !.node = s, !.fields = fs]

SpecEdit == InitEdit /\ [][NextEdit]_vars

EditNodeCall == targs.tool = "edit_node"

\* C29: edit_node calls editDocument at most once; once it has (a document
\* id given), the call holds one entry whose keys are action, node_id and
\* the fields the caller supplied, each with the value supplied, false, 0
\* and the empty string included, and no other field; after the remote has
\* applied it the node shows the supplied values and, in every field not
\* supplied, what it showed before, and no other node has changed.
C29_EditSendsSuppliedFields ==
    EditNodeCall =>
        /\ Len(tlog) <= 1
        /\ targs.doc = NoId => tlog = <<>>
        /\ (targs.doc # NoId /\ tpc # "start") => Len(tlog) = 1
        /\ \A c \in DOMAIN tlog :
              /\ tlog[c].op = "edit"
              /\ Len(tlog[c].changes) = 1
              /\ LET e == tlog[c].changes[1] IN
                 /\ DOMAIN e = {"action", "node_id"} \cup DOMAIN targs.fields
                 /\ e["action"] = "edit"
                 /\ e["node_id"] = targs.node
                 /\ \A f \in DOMAIN targs.fields : e[f] = targs.fields[f]
        /\ (tpc = "returned" /\ tret.kind = "ok") =>
              \A i \in DOMAIN tdoc :
                  /\ tdoc[i].id # targs.node => tdoc[i] = EditDoc[i]
                  /\ tdoc[i].id = targs.node =>
                        \A f \in DOMAIN tdoc[i] :
                            tdoc[i][f] = IF f \in DOMAIN targs.fields THEN targs.fields[f]
                                         ELSE EditDoc[i][f]

\* false, 0 and the empty string supplied for a node that showed the
\* opposite, note and checkbox not supplied: the node shows them.
C29_Witness ==
    /\ EditNodeCall
    /\ tpc = "returned" /\ tret.kind = "ok"
    /\ DOMAIN targs.fields = {"content", "checked", "heading"}
    /\ targs.fields["content"] = <<>>
    /\ targs.fields["checked"] = FALSE
    /\ targs.fields["heading"] = 0
    /\ \E i \in DOMAIN tdoc :
          /\ tdoc[i].id = targs.node
          /\ tdoc[i].content = <<>> /\ ~tdoc[i].checked /\ tdoc[i].heading = 0
          /\ tdoc[i].note = <<"n">> /\ tdoc[i].checkbox

----------------------------------------------------------------------------
(* tools: the handler of send_to_inbox, with the body of                   *)
(* insertTreeUnderParent inlined at its calls.  An action is the code      *)
(* between two awaits; iphase tells which call of insertTreeUnderParent    *)
(* is running.                                                             *)

\* { checkbox }
PlainOptions == [hasStartIndex |-> FALSE, startIndex |-> 0, checkbox |-> icheckbox]

\* The locals of insertTreeUnderParent.
Inner(l, t, r, p) ==
    [levelIdx |-> l, totalCreated |-> t, rootNodeIds |-> r, previousLevelIds |-> p]

SetInner(inner) ==
    /\ levelIdx' = inner.levelIdx
    /\ totalCreated' = inner.totalCreated
    /\ rootNodeIds' = inner.rootNodeIds
    /\ previousLevelIds' = inner.previousLevelIds

\* insertTreeUnderParent(client, inboxFileId, pid, subtree, options) is
\* called with a tree that is not empty and runs up to its first await.
InboxInsertCall(pid, subtree, options, phase, idx, tot, tops) ==
    LET lvls == groupByLevel(subtree)
    IN  /\ parentId' = pid
        /\ levels' = lvls
        /\ SetInner(Inner(0, 0, <<>>, <<>>))
        /\ IssueLevel(lvls, 0, pid, <<>>, options)
        /\ iphase' = phase
        /\ topIdx' = idx
        /\ inboxTotal' = tot
        /\ topRootIds' = tops
        /\ UNCHANGED ret

\* The handler returns its success text.
InboxReturn(inner, tot, tops) ==
    /\ pc' = "returned"
    /\ ret' = [kind |-> "ok", totalCreated |-> tot, rootNodeIds |-> <<>>]
    /\ iphase' = "done"
    /\ inboxTotal' = tot
    /\ topRootIds' = tops
    /\ SetInner(inner)
    /\ UNCHANGED <<parentId, levels, requests, callLog, topIdx>>

\* Step 3 up to its readDocument, or the return when the tree has one
\* top-level item.
InboxStep3(inner, tot) ==
    IF Len(tree) > 1
    THEN /\ requests' = Append(requests, [op |-> "read", changes |-> <<>>])
         /\ pc' = "read_wait"
         /\ iphase' = "read"
         /\ inboxTotal' = tot
         /\ SetInner(inner)
         /\ UNCHANGED <<parentId, levels, ret, callLog, topIdx, topRootIds>>
    ELSE InboxReturn(inner, tot, topRootIds)

\* The for loop over topResult.rootNodeIds from i on, up to the next
\* insertTreeUnderParent it calls, or the return.
InboxChildrenLoop(i, tops, inner, tot) ==
    LET withKids == {j \in i..(Len(tops) - 1) : tree[j + 2].children # <<>>}
    IN  IF withKids = {} THEN InboxReturn(inner, tot, tops)
        ELSE LET j == CHOOSE x \in withKids : \A y \in withKids : x <= y
             IN  InboxInsertCall(tops[j + 1], tree[j + 2].children, PlainOptions,
                                 "children", j, tot, tops)

\* The handler is invoked: the content is parsed and the first top-level
\* item is sent to the inbox.
InboxStart ==
    /\ UNCHANGED <<renderVars, toolVars, parseVars, navVars>>
    /\ pc = "start"
    /\ iphase = "start"
    /\ LET t == parseMarkdownBullets(text)
       IN  /\ tree' = t
           /\ IF t = <<>>
              THEN /\ pc' = "returned"
                   /\ ret' = [kind |-> "error", totalCreated |-> 0, rootNodeIds |-> <<>>]
                   /\ iphase' = "done"
                   /\ UNCHANGED requests
              ELSE /\ requests' = Append(requests,
                          [op |-> "inbox",
                           changes |-> <<[action |-> "insert", parent_id |-> NoId, index |-> 0,
                                          content |-> t[1].content, checkbox |-> icheckbox,
                                          key |-> t[1].key]>>])
                   /\ pc' = "inbox_wait"
                   /\ iphase' = "add"
                   /\ UNCHANGED ret
    /\ UNCHANGED <<urlNode, text, position, parentId, levels, levelIdx, totalCreated,
                   rootNodeIds, previousLevelIds, responses, callLog, docNodes, nextId>>
    /\ UNCHANGED <<icheckbox, firstNodeId, topIdx, topRootIds, inboxTotal, inboxNode, inboxTop>>

\* sendToInbox resolves: step 2 up to its await, else step 3.
InboxAddReturn ==
    /\ UNCHANGED <<renderVars, toolVars, parseVars, navVars>>
    /\ pc = "inbox_wait"
    /\ responses # <<>>
    /\ Head(responses).ok
    /\ responses' = Tail(responses)
    /\ LET first == Head(responses).new_node_ids[1]
       IN  /\ firstNodeId' = first
           /\ IF tree[1].children # <<>>
              THEN InboxInsertCall(first, tree[1].children, PlainOptions,
                                   "first_children", topIdx, 1, topRootIds)
              ELSE InboxStep3(Inner(levelIdx, totalCreated, rootNodeIds, previousLevelIds), 1)
    /\ UNCHANGED <<urlNode, text, position, tree, docNodes, nextId>>
    /\ UNCHANGED <<icheckbox, inboxNode, inboxTop>>

\* readDocument resolves: the root of the inbox document is inferred, the
\* first item is looked up among its children, and the remaining top-level
\* items are inserted under the root from firstNodeIndex + 1 on.
InboxReadReturn ==
    /\ UNCHANGED <<renderVars, toolVars, parseVars, navVars>>
    /\ pc = "read_wait"
    /\ iphase = "read"
    /\ responses # <<>>
    /\ Head(responses).ok
    /\ responses' = Tail(responses)
    /\ LET nodes == Head(responses).nodes
           inboxRootId == findRootNodeId(nodes)
           firstNodeIndex == IF HasId(nodes, inboxRootId)
                             THEN IndexOf(nodes[NodeMapIdx(nodes, inboxRootId)].children,
                                          firstNodeId)
                             ELSE -1
           remainingTopLevel == [k \in 1..(Len(tree) - 1) |->
                                    [tree[k + 1] EXCEPT !.children = <<>>]]
       IN  InboxInsertCall(inboxRootId, remainingTopLevel,
                           [hasStartIndex |-> TRUE, startIndex |-> firstNodeIndex + 1,
                            checkbox |-> icheckbox],
                           "top", topIdx, inboxTotal, topRootIds)
    /\ UNCHANGED <<urlNode, text, position, tree, docNodes, nextId>>
    /\ UNCHANGED <<icheckbox, firstNodeId, inboxNode, inboxTop>>

\* editDocument resolves: the rest of the loop body of insertTreeUnderParent
\* and its next iteration up to the await; after the last level the caller
\* goes on from the call that has returned.
InboxEditReturn ==
    /\ UNCHANGED <<renderVars, toolVars, parseVars, navVars>>
    /\ pc = "edit_wait"
    /\ iphase \in {"first_children", "top", "children"}
    /\ responses # <<>>
    /\ Head(responses).ok
    /\ responses' = Tail(responses)
    /\ LET newIds == Head(responses).new_node_ids
           roots == RootIdsAfter(levelIdx, newIds, rootNodeIds)
           total == totalCreated + Len(newIds)
           inner == Inner(levelIdx + 1, total, roots, newIds)
       IN  IF levelIdx + 1 < Len(levels)
           THEN /\ SetInner(inner)
                /\ IssueLevel(levels, levelIdx + 1, parentId, newIds, PlainOptions)
                /\ UNCHANGED <<parentId, levels, ret, iphase, topIdx, topRootIds, inboxTotal>>
           ELSE IF iphase = "first_children" THEN InboxStep3(inner, inboxTotal + total)
           ELSE IF iphase = "top" THEN InboxChildrenLoop(0, roots, inner, inboxTotal + total)
           ELSE InboxChildrenLoop(topIdx + 1, topRootIds, inner, inboxTotal + total)
    /\ UNCHANGED <<urlNode, text, position, tree, docNodes, nextId>>
    /\ UNCHANGED <<icheckbox, firstNodeId, inboxNode, inboxTop>>

\* An awaited call rejects: the handler has no try/catch, so the error
\* leaves it.
InboxThrow ==
    /\ UNCHANGED <<renderVars, toolVars, parseVars, navVars>>
    /\ pc \in {"inbox_wait", "read_wait", "edit_wait"}
    /\ iphase \in {"add", "first_children", "read", "top", "children"}
    /\ responses # <<>>
    /\ ~Head(responses).ok
    /\ responses' = Tail(responses)
    /\ pc' = "threw"
    /\ ret' = [kind |-> "threw", totalCreated |-> 0, rootNodeIds |-> <<>>]
    /\ iphase' = "done"
    /\ UNCHANGED <<urlNode, text, position, tree, parentId, levels, levelIdx,
                   totalCreated, rootNodeIds, previousLevelIds, requests, callLog,
                   docNodes, nextId>>
    /\ UNCHANGED <<icheckbox, firstNodeId, topIdx, topRootIds, inboxTotal, inboxNode, inboxTop>>

\* The remote serves /inbox/add: the item becomes a child of the node the
\* account has as its inbox location, first or last as the account has it.
RemoteInboxAdd ==
    /\ UNCHANGED <<renderVars, toolVars, parseVars, navVars, inboxVars>>
    /\ requests # <<>>
    /\ Head(requests).op = "inbox"
    /\ LET item == Head(requests).changes[1]
       IN  docNodes' = ApplyInsert(docNodes,
                                   [item EXCEPT !.parent_id = inboxNode,
                                                !.index = IF inboxTop THEN 0 ELSE -1],
                                   nextId)
    /\ nextId' = nextId + 1
    /\ responses' = Append(responses, [op |-> "inbox", ok |-> TRUE, nodes |-> <<>>,
                                       new_node_ids |-> <<nextId>>])
    /\ requests' = Tail(requests)
    /\ UNCHANGED <<pc, urlNode, text, position, tree, parentId, levels, levelIdx,
                   totalCreated, rootNodeIds, previousLevelIds, ret, callLog>>

NextInbox ==
    \/ InboxStart
    \/ InboxAddReturn
    \/ InboxReadReturn
    \/ InboxEditReturn
    \/ InboxThrow
    \/ RemoteInboxAdd
    \/ RemoteRead
    \/ RemoteEdit
    \/ RemoteReject

\* Every text, an inbox document whose root has up to MaxExisting children,
\* the inbox location at the root or at one of them.
InitInbox ==
    /\ pc = "start"
    /\ text \in InputTexts
    /\ position = "as_last_child"
    /\ urlNode = NoId
    /\ \E e \in 0..MaxExisting :
          /\ docNodes = InitialDoc(e)
          /\ nextId = RootId + e + 1
          /\ inboxNode \in RootId..(RootId + e)
    /\ inboxTop \in BOOLEAN
    /\ icheckbox \in BOOLEAN
    /\ iphase = "start"
    /\ firstNodeId = NoId
    /\ topIdx = 0
    /\ topRootIds = <<>>
    /\ inboxTotal = 0
    /\ tree = <<>>
    /\ parentId = NoId
    /\ levels = <<>>
    /\ levelIdx = 0
    /\ totalCreated = 0
    /\ rootNodeIds = <<>>
    /\ previousLevelIds = <<>>
    /\ ret = [kind |-> "none", totalCreated |-> 0, rootNodeIds |-> <<>>]
    /\ requests = <<>>
    /\ responses = <<>>
    /\ callLog = <<>>
    /\ RenderIdle
    /\ ToolIdle
    /\ ParseIdle
    /\ NavIdle

SpecInbox == InitInbox /\ [][NextInbox]_vars

----------------------------------------------------------------------------
(* send_to_inbox: what became of the inbox document.                       *)

InboxDone == iphase = "done" /\ pc = "returned" /\ ret.kind = "ok"

\* The ids created for a pending node: the inbox item for the first
\* top-level node, the ids the batch calls returned for the others.
InboxIdsOf(key) == IF key = tree[1].key THEN {firstNodeId} ELSE ReturnedIds(key)

InboxIdOf(key) == CHOOSE id \in InboxIdsOf(key) : TRUE

\* The inbox location is the root of the inbox document.
InboxAtRoot == inboxNode = RootId

\* C30: send_to_inbox has returned its success text: the total it reports
\* is the number of parsed nodes and every parsed node has one id of its
\* own; the parent of a parsed node's id in the document is the id of its
\* parsed parent; the ids of the top-level items are children of the parent
\* of the first inbox item, at consecutive places from its place on, in
\* input order.
C30_InboxHierarchy ==
    InboxDone =>
        /\ ret.totalCreated = Cardinality(Pending)
        /\ \A n \in Pending : Cardinality(InboxIdsOf(n.key)) = 1
        /\ \A n, m \in Pending : n.key # m.key => InboxIdsOf(n.key) # InboxIdsOf(m.key)
        /\ Len(docNodes) = nextId - 1
        /\ \A n \in Pending :
              n.parent # 0 =>
                  /\ HasParent(docNodes, InboxIdOf(n.key))
                  /\ findNodeParent(docNodes, InboxIdOf(n.key)).parentId = InboxIdOf(n.parent)
        /\ LET first == findNodeParent(docNodes, firstNodeId)
           IN  \A k \in 1..Len(tree) :
                   /\ HasParent(docNodes, InboxIdOf(tree[k].key))
                   /\ findNodeParent(docNodes, InboxIdOf(tree[k].key))
                         = [parentId |-> first.parentId, index |-> first.index + k - 1]

\* The same with the inbox location at the root of the inbox document.
C30_AtRoot == InboxAtRoot => C30_InboxHierarchy

====
